---- MODULE Spec2Model ----
(***************************************************************************)
(* A model of the preference-scoring and hybrid recommendation engine:     *)
(* src/src/agents.py (MusicAgent), src/src/onboarding.py                   *)
(* (OnboardingManager), src/src/recommender.py (RecommenderManager) and    *)
(* the catalog lookups of src/src/dataloader.py they use.                  *)
(*                                                                         *)
(* Numbers.  Weights, probabilities and the audio features are floats in   *)
(* the source; here they are exact multiples of 1/Unit (tenths), so 0.6 is *)
(* 6 and a weight of 0.9 is 9.  Quotients are never rounded: a comparison  *)
(* of quotients is cross-multiplied, so the model follows the source in    *)
(* exact rational arithmetic (binary floating-point rounding of the last   *)
(* bit is outside the model).                                              *)
(***************************************************************************)
EXTENDS Integers, Sequences, FiniteSets, TLC

VARIABLES
  agent,      \* the MusicAgent under test (its preference fields are immutable)
  playlists,  \* agent.playlists, the only field of the agent that grows
  call,       \* the last call made: its name, its arguments, what it returned
  onboarding_histories,   \* the dict agent_id -> onboarding history, as the
                          \* sequence of its items in insertion order
  interaction_histories,  \* RecommenderManager.interaction_histories: the
                          \* ledger, agent_id -> list of interactions
  now                     \* datetime.now(), in hours

vars == <<agent, playlists, call, onboarding_histories, interaction_histories, now>>

\* the RecommenderManager and the clock, for the specifications that leave
\* them alone
managers == <<onboarding_histories, interaction_histories, now>>

----------------------------------------------------------------------------
(* Bounds of the model *)

\* the longest genre_preferences + feature_preferences of an enumerated agent
MaxPrefs == 3
\* the same, for the agents that create playlists
MaxPlaylistPrefs == 1
\* the longest list of available songs passed to create_playlist
MaxCandidates == 2
\* the most playlists an agent creates
MaxPlaylists == 1
\* most interactions the ledger holds, over all agents
MaxInteractions == 2
\* most times the clock advances
MaxTicks == 1
\* the longest list handed to _combine_recommendations
MaxRecs == 2
\* the most songs of a rating map handed to _calculate_rating_similarity
MaxRated == 2
\* the most interactions of the ledger the collaborative filter reads
MaxLedger == 2

\* the most interactions of a ledger the content scorer is run on
MaxRecent == 2

\* the most ratings of a list an onboarding history is made of
MaxOnboarded == 3

\* the most preferences of a list handed to the MusicAgent constructor
MaxBuilt == 1

\* the most add_interaction calls of a run of the ledger
MaxAppends == 3

\* the most add_interaction calls of one writer of the interleaved run
MaxWrites == 2

\* the most reads of a rating map the reader makes in the interleaved run
MaxReads == 2

(* Program constants *)

\* one unit of weight / probability / feature value: 1.0 is Unit tenths
Unit == 10
\* one unit of similarity: a cosine of 1.0 is SimScale hundredths
SimScale == 100
\* fusion weights, in tenths
content_weight == 7
collab_weight == 3
\* the recency window, in hours
RecentHours == 24
\* one step of the clock: the length of the window
TickHours == RecentHours
\* absent rating (Python's None)
None == -1
\* should_listen_to_song: (score / total_weight) > 0.6
Threshold == 6
\* generate_rating: base_score = 3
base_score == 3
\* generate_rating: max(1, min(5, ...))
MinRating == 1
MaxRating == 5
\* create_playlist: playlist_size = random.randint(10, 30)
\* _create_onboarding_history: rating['rating'] >= 4
LikeThreshold == 4
MinPlaylistSize == 10
MaxPlaylistSize == 30

----------------------------------------------------------------------------
(* Generic helpers *)

Min(a, b) == IF a <= b THEN a ELSE b
Max(a, b) == IF a >= b THEN a ELSE b

SeqsUpTo(S, n) == UNION {[1..k -> S] : k \in 0..n}

Range(s) == {s[i] : i \in DOMAIN s}

----------------------------------------------------------------------------
(* The catalog: rows of SpotifyDataLoader.data after _clean_data, and the  *)
(* song dictionaries _format_song_dict makes of them.                      *)

AUDIO_FEATURES == {"danceability", "energy", "acousticness", "valence", "tempo"}

Row(id, genre, pop, year, d, e, a, v, t) ==
  [track_id |-> id, playlist_genre |-> genre, track_popularity |-> pop,
   release_year |-> year, danceability |-> d, energy |-> e,
   acousticness |-> a, valence |-> v, tempo |-> t]

\* every row the model ever draws from; values in tenths, tempo unnormalised
AllRows ==
  << Row("t1", "classical", 90, 2019, 7, 8,  8, 5, 1200),
     Row("t2", "pop",       80, 2020, 7, 5, 10, 6, 1000),
     Row("t3", "classical", 70, 2018, 3, 9,  5, 5,  900),
     Row("t4", "rock",      60, 2020, 7, 9,  8, 4, 1400) >>

_format_song_dict(row) ==
  [id |-> row.track_id, genre |-> row.playlist_genre,
   release_year |-> row.release_year, popularity |-> row.track_popularity,
   danceability |-> row.danceability, energy |-> row.energy,
   acousticness |-> row.acousticness, valence |-> row.valence,
   tempo |-> row.tempo]

AllSongs == {_format_song_dict(AllRows[i]) : i \in DOMAIN AllRows}

----------------------------------------------------------------------------
(* Agents: MusicAgent and its factories *)

GenrePreference(g, w) == [genre |-> g, weight |-> w]

AudioFeaturePreference(name, lo, hi, w) ==
  [feature_name |-> name, lo |-> lo, hi |-> hi, weight |-> w]

ListeningBehavior(len, skip, rate, freq) ==
  [avg_session_length |-> len, skip_probability |-> skip,
   rating_probability |-> rate, playlist_creation_frequency |-> freq]

MusicAgent(id, arch, gps, fps, beh) ==
  [agent_id |-> id, archetype |-> arch, genre_preferences |-> gps,
   feature_preferences |-> fps, behavior |-> beh]

create_genre_focused_agent(agent_id, primary_genre, secondary_genres) ==
  MusicAgent(agent_id, <<primary_genre, "_enthusiast">>,
    <<GenrePreference(primary_genre, 8)>> \o
      [i \in DOMAIN secondary_genres |-> GenrePreference(secondary_genres[i], 4)],
    << AudioFeaturePreference("danceability", 6, 10, 7),
       AudioFeaturePreference("energy", 5, 9, 6),
       AudioFeaturePreference("valence", 4, 8, 5) >>,
    ListeningBehavior(45, 3, 2, 1))

create_pop_agent(agent_id) ==
  create_genre_focused_agent(agent_id, "pop", <<"dance", "electronic">>)

create_classical_agent(agent_id) ==
  MusicAgent(agent_id, <<"classical_connoisseur">>,
    << GenrePreference("classical", 9), GenrePreference("orchestra", 7) >>,
    << AudioFeaturePreference("acousticness", 8, 10, 9),
       AudioFeaturePreference("instrumentalness", 8, 10, 8) >>,
    ListeningBehavior(60, 1, 4, 1))

create_general_agent(agent_id) ==
  MusicAgent(agent_id, <<"general_explorer">>,
    << GenrePreference("indie", 4), GenrePreference("experimental", 4),
       GenrePreference("world", 4), GenrePreference("jazz", 4),
       GenrePreference("electronic", 4) >>,
    << AudioFeaturePreference("acousticness", 2, 8, 5),
       AudioFeaturePreference("energy", 3, 7, 5),
       AudioFeaturePreference("valence", 3, 7, 5) >>,
    ListeningBehavior(90, 4, 3, 2))

\* the agents script.py and agent_simulator.py build through the factories
FactoryAgents ==
  { create_pop_agent("pop_enthusiast"),
    create_classical_agent("classical_lover"),
    create_genre_focused_agent("rock_indie_mix", "rock", <<"indie", "pop">>),
    create_general_agent("general_agent") }

(* Agents built directly, MusicAgent(...): every list of genre preferences *)
(* and of feature preferences over these options, at most n preferences in *)
(* all.  The model accepts what the pydantic classes accept: a weight in   *)
(* [0, 1], and any list, with or without a repeated genre or feature.      *)
GenreOptions ==
  {GenrePreference(g, w) : g \in {"classical", "pop"}, w \in {0, 3, 9}}

FeatureOptions ==
  { AudioFeaturePreference("acousticness", 8, 10, 3),
    AudioFeaturePreference("acousticness", 8, 10, 6),
    AudioFeaturePreference("energy", 3, 8, 3),
    AudioFeaturePreference("energy", 3, 8, 6),
    AudioFeaturePreference("instrumentalness", 8, 10, 3),
    AudioFeaturePreference("instrumentalness", 8, 10, 6) }

DirectAgentsOfLengths(i, j) ==
  { MusicAgent("direct_agent", <<"direct">>, gps, fps,
               ListeningBehavior(30, 3, 5, 5))
    : gps \in [1..i -> GenreOptions], fps \in [1..j -> FeatureOptions] }

DirectAgents(n) ==
  UNION {UNION {DirectAgentsOfLengths(i, k - i) : i \in 0..k} : k \in 0..n}

Agents == FactoryAgents \cup DirectAgents(MaxPrefs)

\* random.random(), in tenths: a value of [0, 1)
RandomDraws == {0, 5, 9}

----------------------------------------------------------------------------
(* MusicAgent.should_listen_to_song *)

GenreNames(a) == {a.genre_preferences[i].genre : i \in DOMAIN a.genre_preferences}

\* next(gp for gp in self.genre_preferences if gp.genre == genre)
FirstGenrePref(a, genre) ==
  LET i == CHOOSE i \in DOMAIN a.genre_preferences :
             /\ a.genre_preferences[i].genre = genre
             /\ \A j \in 1..(i - 1) : a.genre_preferences[j].genre # genre
  IN a.genre_preferences[i]

InRange(fp, song) ==
  fp.lo <= song[fp.feature_name] /\ song[fp.feature_name] <= fp.hi

RECURSIVE ListenLoop(_, _, _, _)
ListenLoop(prefs, song, score, total_weight) ==
  IF prefs = <<>> THEN [score |-> score, total_weight |-> total_weight]
  ELSE LET fp == Head(prefs) IN
       IF fp.feature_name \in DOMAIN song
       THEN ListenLoop(Tail(prefs), song,
                       IF InRange(fp, song) THEN score + fp.weight ELSE score,
                       total_weight + 1)
       ELSE ListenLoop(Tail(prefs), song, score, total_weight)

\* score and total_weight as they stand at the return statement
ListenTotals(a, song) ==
  IF song.genre \in GenreNames(a)
  THEN ListenLoop(a.feature_preferences, song, FirstGenrePref(a, song.genre).weight, 1)
  ELSE ListenLoop(a.feature_preferences, song, 0, 0)

\* a variant of should_listen_to_song that accepts a mean of exactly 0.6
should_listen_to_song_AtLeast(a, song) ==
  LET t == ListenTotals(a, song) IN
  IF t.total_weight > 0 THEN t.score >= Threshold * t.total_weight ELSE FALSE

\* (score / total_weight) > 0.6 if total_weight > 0 else False
should_listen_to_song(a, song) ==
  LET t == ListenTotals(a, song) IN
  IF t.total_weight > 0 THEN t.score > Threshold * t.total_weight ELSE FALSE

----------------------------------------------------------------------------
(* MusicAgent.generate_rating *)

\* Python's round() of the rational num / den (den > 0): to the nearest
\* integer, a tie to the even one
round(num, den) ==
  LET q == num \div den
      r == num % den
  IN IF 2 * r < den THEN q
     ELSE IF 2 * r > den THEN q + 1
     ELSE IF q % 2 = 0 THEN q ELSE q + 1

RECURSIVE RatingLoop_NoPenalty(_, _, _, _)
\* a variant of RatingLoop that adds nothing for an out-of-range feature
RatingLoop_NoPenalty(prefs, song, score_adjustments, count) ==
  IF prefs = <<>> THEN [score_adjustments |-> score_adjustments, count |-> count]
  ELSE LET fp == Head(prefs) IN
       IF fp.feature_name \in DOMAIN song
       THEN RatingLoop_NoPenalty(Tail(prefs), song,
                       IF InRange(fp, song)
                       THEN score_adjustments + 2 * fp.weight
                       ELSE score_adjustments,
                       count + 1)
       ELSE RatingLoop_NoPenalty(Tail(prefs), song, score_adjustments, count)

RECURSIVE RatingLoop(_, _, _, _)
RatingLoop(prefs, song, score_adjustments, count) ==
  IF prefs = <<>> THEN [score_adjustments |-> score_adjustments, count |-> count]
  ELSE LET fp == Head(prefs) IN
       IF fp.feature_name \in DOMAIN song
       THEN RatingLoop(Tail(prefs), song,
                       IF InRange(fp, song)
                       THEN score_adjustments + 2 * fp.weight
                       ELSE score_adjustments - 2 * fp.weight,
                       count + 1)
       ELSE RatingLoop(Tail(prefs), song, score_adjustments, count)

RatingTotals(a, song) ==
  IF song.genre \in GenreNames(a)
  THEN RatingLoop(a.feature_preferences, song,
                  2 * FirstGenrePref(a, song.genre).weight, 1)
  ELSE RatingLoop(a.feature_preferences, song, 0, 0)

\* draw is the value random.random() returned
generate_rating(a, song, draw) ==
  IF draw > a.behavior.rating_probability THEN None
  ELSE LET t == RatingTotals(a, song) IN
       IF t.count > 0
       THEN \* final_score = base_score + score_adjustments / count
            Max(MinRating, Min(MaxRating,
                round(base_score * Unit * t.count + t.score_adjustments,
                      Unit * t.count)))
       ELSE base_score

----------------------------------------------------------------------------
(* MusicAgent.create_playlist *)

\* random.choices(population, weights)[0]: raises IndexError on an empty
\* population and ValueError when the weights sum to zero; otherwise any
\* element of positive weight
ChoicesError(population, weights) ==
  IF population = <<>> THEN "IndexError"
  ELSE IF \A i \in DOMAIN weights : weights[i] = 0 THEN "ValueError"
  ELSE "ok"

ChoicesOutcomes(population, weights) ==
  {population[i] : i \in {j \in DOMAIN population : weights[j] > 0}}

\* random.sample(population, k): k elements at distinct positions, any order
Samples(population, k) ==
  { [i \in 1..k |-> population[f[i]]] :
      f \in {g \in [1..k -> DOMAIN population] :
               \A i, j \in 1..k : g[i] = g[j] => i = j} }

\* min(playlist_size, len(suitable_songs)) for every
\* playlist_size = random.randint(10, 30)
SampleSizes(n) ==
  {Min(playlist_size, n) : playlist_size \in MinPlaylistSize..MaxPlaylistSize}

\* a variant of suitable_songs that keeps every available song
suitable_songs_Unfiltered(a, available_songs) == available_songs

\* [song for song in available_songs if self.should_listen_to_song(song)]
suitable_songs(a, available_songs) ==
  SelectSeq(available_songs, LAMBDA song : should_listen_to_song(a, song))

genre_weights(a) == [i \in DOMAIN a.genre_preferences |-> a.genre_preferences[i].weight]
primary_genres(a) == [i \in DOMAIN a.genre_preferences |-> a.genre_preferences[i].genre]

Playlist(id, name, description, songs, genre_focus) ==
  [playlist_id |-> id, name |-> name, description |-> description,
   songs |-> songs, genre_focus |-> genre_focus]

\* f"My {chosen_genre.title()} Mix Vol.{n + 1}", n the agent's playlists of
\* that genre focus
GenrePlaylistName(pls, chosen_genre) ==
  [mix |-> chosen_genre,
   vol |-> Cardinality({i \in DOMAIN pls : pls[i].genre_focus = chosen_genre}) + 1]

\* the outcome of a call: what it returned or raised, and the playlist if any
Outcome(args, kind, returned) ==
  [op |-> "create_playlist", available_songs |-> args.available_songs,
   playlist_type |-> args.playlist_type, draw |-> args.draw,
   outcome |-> kind, playlist |-> returned]

\* lines 173-196: filter, sample, register
SelectAndRegister(args, name, description, genre_focus) ==
  LET suitable == suitable_songs(agent, args.available_songs) IN
  IF suitable # <<>>
  THEN \E k \in SampleSizes(Len(suitable)) :
         \E selected_songs \in Samples(suitable, k) :
           LET new_playlist ==
                 Playlist(Len(playlists) + 1, name, description,
                          [i \in DOMAIN selected_songs |-> selected_songs[i].id],
                          genre_focus)
           IN /\ playlists' = Append(playlists, new_playlist)
              /\ call' = Outcome(args, "Playlist", <<new_playlist>>)
  ELSE /\ call' = Outcome(args, "None", <<>>)
       /\ UNCHANGED playlists

create_playlist(available_songs, playlist_type, draw) ==
  LET args == [available_songs |-> available_songs,
               playlist_type |-> playlist_type, draw |-> draw]
  IN
  /\ Len(playlists) < MaxPlaylists
  /\ UNCHANGED <<agent, managers>>
  /\ IF draw > agent.behavior.playlist_creation_frequency
     THEN /\ call' = Outcome(args, "None", <<>>)
          /\ UNCHANGED playlists
     ELSE IF playlist_type = "genre"
     THEN IF ChoicesError(primary_genres(agent), genre_weights(agent)) # "ok"
          THEN \* random.choices raises at line 163
               /\ call' = Outcome(args,
                     ChoicesError(primary_genres(agent), genre_weights(agent)), <<>>)
               /\ UNCHANGED playlists
          ELSE \E chosen_genre \in
                    ChoicesOutcomes(primary_genres(agent), genre_weights(agent)) :
                 SelectAndRegister(args, GenrePlaylistName(playlists, chosen_genre),
                                   <<"A curated collection of", chosen_genre>>,
                                   chosen_genre)
     ELSE \* line 169 calls self.generate_playlist_metadata(), which no class
          \* defines (the method is generate_playlist_name): AttributeError
          /\ call' = Outcome(args, "AttributeError", <<>>)
          /\ UNCHANGED playlists

\* the lists of songs the callers pass: songs of the catalog, in its order
RECURSIVE RowsAt(_, _)
RowsAt(rows, I) ==
  IF rows = <<>> THEN <<>>
  ELSE (IF Len(rows) \in I THEN RowsAt(SubSeq(rows, 1, Len(rows) - 1), I)
                                   \o <<_format_song_dict(rows[Len(rows)])>>
        ELSE RowsAt(SubSeq(rows, 1, Len(rows) - 1), I))

CandidateLists ==
  {RowsAt(AllRows, I) :
     I \in {J \in SUBSET DOMAIN AllRows : Cardinality(J) <= MaxCandidates}}

\* random.random() at line 155, in tenths
PlaylistDraws == {0, 9}

PlaylistAgents == FactoryAgents \cup DirectAgents(MaxPlaylistPrefs)

InitPlaylist ==
  /\ agent \in PlaylistAgents
  /\ playlists = <<>>
  /\ call = [op |-> "init"]
  /\ onboarding_histories = <<>>
  /\ interaction_histories = <<>>
  /\ now = 0

NextPlaylist ==
  \E available_songs \in CandidateLists, playlist_type \in {"genre", "mixed"},
     draw \in PlaylistDraws :
    create_playlist(available_songs, playlist_type, draw)

SpecPlaylist == InitPlaylist /\ [][NextPlaylist]_vars

----------------------------------------------------------------------------
(* The preference model under test: one agent, any accepted construction,  *)
(* asked about songs of the catalog.                                       *)

InitPref ==
  /\ agent \in Agents
  /\ playlists = <<>>
  /\ call = [op |-> "init"]
  /\ onboarding_histories = <<>>
  /\ interaction_histories = <<>>
  /\ now = 0

Listen(song) ==
  /\ call' = [op |-> "should_listen_to_song", song |-> song,
              result |-> should_listen_to_song(agent, song)]
  /\ UNCHANGED <<agent, playlists, managers>>

Rate(song, draw) ==
  /\ call' = [op |-> "generate_rating", song |-> song, draw |-> draw,
              result |-> generate_rating(agent, song, draw)]
  /\ UNCHANGED <<agent, playlists, managers>>

NextPref ==
  \/ \E song \in AllSongs : Listen(song)
  \/ \E song \in AllSongs, draw \in RandomDraws : Rate(song, draw)

SpecPref == InitPref /\ [][NextPref]_vars

----------------------------------------------------------------------------
(* Properties of the preference model (checked under SpecPref) *)

RECURSIVE SumWeights(_, _)
\* the sum of prefs[i].weight over the indices i of I
SumWeights(prefs, I) ==
  IF I = {} THEN 0
  ELSE LET i == CHOOSE i \in I : TRUE
       IN prefs[i].weight + SumWeights(prefs, I \ {i})

\* indices of the genre preferences whose genre is the song's
MatchingGenres(a, song) ==
  {i \in DOMAIN a.genre_preferences : a.genre_preferences[i].genre = song.genre}

\* indices of the feature preferences whose feature the song carries
PresentFeatures(a, song) ==
  {j \in DOMAIN a.feature_preferences :
     a.feature_preferences[j].feature_name \in DOMAIN song}

InRangeFeatures(a, song) ==
  {j \in PresentFeatures(a, song) : InRange(a.feature_preferences[j], song)}

NoDuplicateGenre(a) ==
  \A i, j \in DOMAIN a.genre_preferences :
     a.genre_preferences[i].genre = a.genre_preferences[j].genre => i = j

\* C1 as the claim states it: EVERY genre preference whose genre equals the
\* song's adds its weight to score and 1 to total_weight
ClaimedScore(a, song) ==
  SumWeights(a.genre_preferences, MatchingGenres(a, song))
    + SumWeights(a.feature_preferences, InRangeFeatures(a, song))

ClaimedTotalWeight(a, song) ==
  Cardinality(MatchingGenres(a, song)) + Cardinality(PresentFeatures(a, song))

\* C1: should_listen_to_song returns true exactly when total_weight > 0 and
\* score / total_weight > 0.6, every matching genre preference and every
\* feature preference present on the song counted as the claim says; it is
\* false when no preference applies.
C1_AffinityAsClaimed ==
  call.op = "should_listen_to_song" =>
    call.result = (/\ ClaimedTotalWeight(agent, call.song) > 0
                   /\ ClaimedScore(agent, call.song)
                        > Threshold * ClaimedTotalWeight(agent, call.song))

\* C1 for the agents whose genre preferences name no genre twice (for them
\* the first matching genre preference is the only one)
C1_AffinityNoDuplicateGenre ==
  (call.op = "should_listen_to_song" /\ NoDuplicateGenre(agent)) =>
    call.result = (/\ ClaimedTotalWeight(agent, call.song) > 0
                   /\ ClaimedScore(agent, call.song)
                        > Threshold * ClaimedTotalWeight(agent, call.song))

\* the accumulator and the counter of generate_rating, stated over index
\* sets: the first matching genre preference adds 2 * weight, a feature
\* preference present on the song +2 * weight in range and -2 * weight out
ExpectedAccumulator(a, song) ==
  (IF MatchingGenres(a, song) = {} THEN 0
   ELSE 2 * a.genre_preferences[
              CHOOSE i \in MatchingGenres(a, song) :
                \A j \in MatchingGenres(a, song) : i <= j].weight)
  + 2 * SumWeights(a.feature_preferences, InRangeFeatures(a, song))
  - 2 * SumWeights(a.feature_preferences,
                   PresentFeatures(a, song) \ InRangeFeatures(a, song))

ExpectedCounter(a, song) ==
  (IF MatchingGenres(a, song) = {} THEN 0 ELSE 1)
    + Cardinality(PresentFeatures(a, song))

\* r is a nearest integer to num / den (den > 0)
IsNearest(r, num, den) ==
  /\ 2 * (r * den - num) <= den
  /\ 2 * (num - r * den) <= den

\* C2: generate_rating returns absent or an integer of 1..5; when the agent
\* rates, the result is 3 + accumulator / counter rounded to a nearest
\* integer and clamped to [1, 5], and 3 when counter = 0.
C2_RatingInRange ==
  call.op = "generate_rating" =>
    \/ call.result = None
    \/ /\ call.result \in MinRating..MaxRating
       /\ LET acc == ExpectedAccumulator(agent, call.song)
              cnt == ExpectedCounter(agent, call.song)
          IN IF cnt = 0 THEN call.result = 3
             ELSE \E r \in 0..6 :
                    /\ IsNearest(r, 3 * Unit * cnt + acc, Unit * cnt)
                    /\ call.result = Max(1, Min(5, r))

\* a rating below the base score: some out-of-range feature was penalised
C2_Witness ==
  /\ call.op = "generate_rating"
  /\ call.result # None
  /\ call.result < 3
  /\ ExpectedCounter(agent, call.song) > 1

\* the agent and song of C3: genre preferences {classical: 0.9}, a classical
\* song on which every feature preference of the agent is in range
C3_Case ==
  /\ call.op = "should_listen_to_song"
  /\ agent.genre_preferences = <<GenrePreference("classical", 9)>>
  /\ call.song.genre = "classical"
  /\ InRangeFeatures(agent, call.song) = DOMAIN agent.feature_preferences

\* C3 as the claim states it: affinity is true whatever the feature weights
C3_AffinityWhateverWeights == C3_Case => call.result = TRUE

\* C3 amended: affinity is true exactly when the mean of 0.9 and the
\* weights of the feature preferences exceeds 0.6
C3_AffinityIffMeanAboveThreshold ==
  C3_Case =>
    call.result =
      (9 + SumWeights(agent.feature_preferences, DOMAIN agent.feature_preferences)
         > Threshold * (1 + Len(agent.feature_preferences)))

\* the case of C3 with a feature preference, affinity true
C3_Witness ==
  /\ C3_Case
  /\ agent.feature_preferences # <<>>
  /\ call.result = TRUE

----------------------------------------------------------------------------
(* Properties of create_playlist (checked under SpecPlaylist) *)

\* the frequency draw of the last create_playlist call passed
DrawPassed ==
  /\ call.op = "create_playlist"
  /\ ~(call.draw > agent.behavior.playlist_creation_frequency)

\* indices of the available songs the agent would listen to
Qualifying ==
  {j \in DOMAIN call.available_songs :
     should_listen_to_song(agent, call.available_songs[j])}

\* C4: every song id of a playlist create_playlist returns is the id of an
\* available song for which should_listen_to_song is true, and when no
\* available song qualifies no playlist is returned.
C4_PlaylistOnlySuitable ==
  call.op = "create_playlist" =>
    /\ call.outcome = "Playlist" =>
         \A i \in DOMAIN call.playlist[1].songs :
           \E j \in Qualifying :
             call.available_songs[j].id = call.playlist[1].songs[i]
    /\ Qualifying = {} => (call.outcome # "Playlist" /\ call.playlist = <<>>)
    /\ (Qualifying = {} /\ call.outcome \notin {"IndexError", "ValueError", "AttributeError"})
         => call.outcome = "None"

\* a playlist was returned and an available song was left out of it
C4_Witness ==
  /\ call.op = "create_playlist"
  /\ call.outcome = "Playlist"
  /\ Len(call.playlist[1].songs) < Len(call.available_songs)

\* C5: in mixed mode, once the frequency draw passes, create_playlist does
\* not raise: it returns nothing, or a registered playlist whose genre focus
\* is one of the agent's genres or "mixed".
C5_MixedModeCompletes ==
  (DrawPassed /\ call.playlist_type # "genre") =>
    \/ call.outcome = "None"
    \/ /\ call.outcome = "Playlist"
       /\ call.playlist[1].genre_focus \in GenreNames(agent) \cup {"mixed"}
       /\ \E i \in DOMAIN playlists : playlists[i] = call.playlist[1]

\* C6: for an agent with no genre preference, or none of positive weight,
\* create_playlist (genre mode, the draw passed) returns a playlist or
\* nothing and does not raise.
C6_DegenerateGenresShortCircuit ==
  (/\ DrawPassed
   /\ call.playlist_type = "genre"
   /\ \A i \in DOMAIN agent.genre_preferences : agent.genre_preferences[i].weight = 0)
    => call.outcome \in {"None", "Playlist"}

----------------------------------------------------------------------------
(* SpotifyDataLoader: the lookups onboarding and the recommender use.  An  *)
(* optional value (a Dict or None) is a sequence of at most one element.   *)

data == AllRows

\* None if the id is not in the catalog, else the first row of that id
get_song_by_id(track_id) ==
  IF \A i \in DOMAIN data : data[i].track_id # track_id THEN <<>>
  ELSE LET i == CHOOSE i \in DOMAIN data :
                  /\ data[i].track_id = track_id
                  /\ \A j \in 1..(i - 1) : data[j].track_id # track_id
       IN <<_format_song_dict(data[i])>>

\* DataFrame.nlargest(n, 'track_popularity'): the n most popular rows, most
\* popular first, rows of equal popularity in their order in the frame
RECURSIVE nlargest(_, _)
nlargest(rows, n) ==
  IF n = 0 \/ rows = <<>> THEN <<>>
  ELSE LET i == CHOOSE i \in DOMAIN rows :
                  /\ \A j \in DOMAIN rows :
                       rows[j].track_popularity <= rows[i].track_popularity
                  /\ \A j \in 1..(i - 1) :
                       rows[j].track_popularity < rows[i].track_popularity
       IN <<rows[i]>> \o
          nlargest(SubSeq(rows, 1, i - 1) \o SubSeq(rows, i + 1, Len(rows)), n - 1)

FormatAll(rows) == [i \in DOMAIN rows |-> _format_song_dict(rows[i])]

get_top_songs_by_genre(genre, n) ==
  FormatAll(nlargest(SelectSeq(data, LAMBDA row : row.playlist_genre = genre), n))

get_popular_songs_in_timeframe(start_year, end_year, n) ==
  FormatAll(nlargest(
    SelectSeq(data, LAMBDA row : /\ row.release_year >= start_year
                                 /\ row.release_year <= end_year), n))

\* (min, max) of release_year
get_year_range ==
  << CHOOSE y \in {data[i].release_year : i \in DOMAIN data} :
       \A i \in DOMAIN data : y <= data[i].release_year,
     CHOOSE y \in {data[i].release_year : i \in DOMAIN data} :
       \A i \in DOMAIN data : y >= data[i].release_year >>

----------------------------------------------------------------------------
(* OnboardingManager *)

\* a rating is truthy when it is neither None nor 0
Truthy(rating) == rating # None /\ rating # 0

\* a mean, kept exact: the sum and the count
Mean(values) ==
  [num |-> LET RECURSIVE S(_)
               S(v) == IF v = <<>> THEN 0 ELSE Head(v) + S(Tail(v))
           IN S(values),
   den |-> Len(values)]

\* the neutral midpoint 0.5 a feature defaults to
Midpoint == [num |-> 5, den |-> 1]

RECURSIVE ExtendAll(_, _)
\* selected_songs after extending it with the top songs of each genre
ExtendAll(selected_songs, genres) ==
  IF genres = <<>> THEN selected_songs
  ELSE ExtendAll(selected_songs \o get_top_songs_by_genre(Head(genres), 2),
                 Tail(genres))

_select_onboarding_songs(a) ==
  LET genres == primary_genres(a)
      selected_songs ==
        ExtendAll(<<>>, SubSeq(genres, 1, Min(2, Len(genres))))
          \o get_popular_songs_in_timeframe(get_year_range[2] - 2,
                                            get_year_range[2], 1)
  IN SubSeq(selected_songs, 1, Min(5, Len(selected_songs)))

\* one interaction per song, in session order; draws[i] is the value
\* random.random() returned inside generate_rating for song i.  The
\* skipped flag and the timestamp of an onboarding interaction are written
\* but read by no operation of the engine, and are left out.
_collect_ratings(a, songs, draws) ==
  [idx \in DOMAIN songs |->
     [agent_id |-> a.agent_id, song_id |-> songs[idx].id,
      rating |-> generate_rating(a, songs[idx], draws[idx]),
      type |-> "onboarding"]]

\* the catalog genres of the rated songs, for which a list was opened
OnboardingGenres(ratings) ==
  {get_song_by_id(ratings[i].song_id)[1].genre :
     i \in {j \in DOMAIN ratings : get_song_by_id(ratings[j].song_id) # <<>>}}

\* avg_rating_by_genre[genre]: the truthy ratings of the songs of the genre
RatingsOfGenre(ratings, genre) ==
  LET kept == SelectSeq(ratings, LAMBDA r :
                /\ get_song_by_id(r.song_id) # <<>>
                /\ get_song_by_id(r.song_id)[1].genre = genre
                /\ Truthy(r.rating))
  IN [i \in DOMAIN kept |-> kept[i].rating]

\* a variant of LikedValues that takes a rating above the threshold only
LikedValues_Above(ratings, feature) ==
  LET kept == SelectSeq(ratings, LAMBDA r :
                /\ get_song_by_id(r.song_id) # <<>>
                /\ Truthy(r.rating)
                /\ r.rating > LikeThreshold)
  IN [i \in DOMAIN kept |-> get_song_by_id(kept[i].song_id)[1][feature]]

\* feature_preferences[feature]: the feature of the songs rated 4 or more
LikedValues(ratings, feature) ==
  LET kept == SelectSeq(ratings, LAMBDA r :
                /\ get_song_by_id(r.song_id) # <<>>
                /\ Truthy(r.rating)
                /\ r.rating >= LikeThreshold)
  IN [i \in DOMAIN kept |-> get_song_by_id(kept[i].song_id)[1][feature]]

_create_onboarding_history(a, ratings) ==
  [agent_id |-> a.agent_id,
   ratings |-> ratings,
   genre_preferences |->
     [genre \in {g \in OnboardingGenres(ratings) : RatingsOfGenre(ratings, g) # <<>>}
        |-> Mean(RatingsOfGenre(ratings, genre))],
   feature_preferences |->
     [feature \in AUDIO_FEATURES |->
        IF LikedValues(ratings, feature) # <<>>
        THEN Mean(LikedValues(ratings, feature))
        ELSE Midpoint]]

\* every history onboard_agent can record for the agent
OnboardingOutcomes(a) ==
  LET songs == _select_onboarding_songs(a) IN
  {_create_onboarding_history(a, _collect_ratings(a, songs, draws)) :
     draws \in [DOMAIN songs -> RandomDraws]}

(* A dict, as the sequence of its items in insertion order *)
Keys(dict) == {dict[i].key : i \in DOMAIN dict}

Get(dict, key) == dict[CHOOSE i \in DOMAIN dict : dict[i].key = key].value

\* dict[key] = value: a new key goes last, an old key keeps its place
Put(dict, key, value) ==
  IF key \in Keys(dict)
  THEN [i \in DOMAIN dict |->
          IF dict[i].key = key THEN [key |-> key, value |-> value] ELSE dict[i]]
  ELSE Append(dict, [key |-> key, value |-> value])

----------------------------------------------------------------------------
(* Exact fractions, for the scores: num / den with den > 0 *)

Rat(n, d) == [num |-> n, den |-> d]

RatAdd(a, b) ==
  IF a.den = b.den THEN Rat(a.num + b.num, a.den)
  ELSE Rat(a.num * b.den + b.num * a.den, a.den * b.den)

RatLess(a, b) == a.num * b.den < b.num * a.den

RatEq(a, b) == a.num * b.den = b.num * a.den

Abs(x) == IF x < 0 THEN -x ELSE x

\* a variant of InsertDesc that puts x ahead of the items of equal score
InsertDesc_BeforeEqual(sorted, x) ==
  LET k == Cardinality({i \in DOMAIN sorted : RatLess(x.score, sorted[i].score)})
  IN SubSeq(sorted, 1, k) \o <<x>> \o SubSeq(sorted, k + 1, Len(sorted))

\* sorted(items, key=lambda x: x.score, reverse=True): descending, and
\* stable (items of equal score keep their order)
InsertDesc(sorted, x) ==
  LET k == Cardinality({i \in DOMAIN sorted : ~RatLess(sorted[i].score, x.score)})
  IN SubSeq(sorted, 1, k) \o <<x>> \o SubSeq(sorted, k + 1, Len(sorted))

RECURSIVE SortDesc(_)
SortDesc(items) ==
  IF items = <<>> THEN <<>>
  ELSE InsertDesc(SortDesc(SubSeq(items, 1, Len(items) - 1)), items[Len(items)])

----------------------------------------------------------------------------
(* RecommenderManager: ratings and the collaborative filter.  oh and ih    *)
(* are onboarding_histories and interaction_histories.                     *)

RECURSIVE PutRatings_KeepAbsent(_, _)
\* a variant of PutRatings that also enters the interactions without a rating
PutRatings_KeepAbsent(ratings, interactions) ==
  IF interactions = <<>> THEN ratings
  ELSE PutRatings_KeepAbsent(
         Put(ratings, Head(interactions).song_id, Head(interactions).rating),
         Tail(interactions))

RECURSIVE PutRatings_FirstWins(_, _)
\* a variant of PutRatings that keeps the rating a song already has
PutRatings_FirstWins(ratings, interactions) ==
  IF interactions = <<>> THEN ratings
  ELSE PutRatings_FirstWins(
         IF /\ Truthy(Head(interactions).rating)
            /\ Head(interactions).song_id \notin Keys(ratings)
         THEN Put(ratings, Head(interactions).song_id, Head(interactions).rating)
         ELSE ratings,
         Tail(interactions))

RECURSIVE PutRatings(_, _)
\* for interaction in interactions: if interaction['rating']: ratings[...] = ...
PutRatings(ratings, interactions) ==
  IF interactions = <<>> THEN ratings
  ELSE PutRatings(
         IF Truthy(Head(interactions).rating)
         THEN Put(ratings, Head(interactions).song_id, Head(interactions).rating)
         ELSE ratings,
         Tail(interactions))

\* the merged rating map of an agent, a dict song_id -> rating
_get_agent_ratings(oh, ih, agent_id) ==
  LET onboarded ==
        IF agent_id \in Keys(oh)
        THEN PutRatings(<<>>, Get(oh, agent_id).ratings) ELSE <<>>
  IN IF agent_id \in DOMAIN ih THEN PutRatings(onboarded, ih[agent_id])
     ELSE onboarded

\* the sum of ratings1[song] * ratings2[song] over the songs of S
RECURSIVE Dot(_, _, _)
Dot(ratings1, ratings2, S) ==
  IF S = {} THEN 0
  ELSE LET song == CHOOSE song \in S : TRUE
       IN Get(ratings1, song) * Get(ratings2, song) + Dot(ratings1, ratings2, S \ {song})

\* a variant of _calculate_rating_similarity that takes the length of the
\* first vector over every song of ratings1, not over the shared songs
_calculate_rating_similarity_OverFirst(ratings1, ratings2) ==
  LET common_songs == Keys(ratings1) \cap Keys(ratings2) IN
  IF common_songs = {} THEN 0
  ELSE LET dot == Dot(ratings1, ratings2, common_songs)
           n1  == Dot(ratings1, ratings1, Keys(ratings1))
           n2  == Dot(ratings2, ratings2, common_songs)
       IN CHOOSE c \in 0..SimScale :
            /\ c * c * n1 * n2 <= SimScale * SimScale * dot * dot
            /\ c < SimScale => (c + 1) * (c + 1) * n1 * n2 > SimScale * SimScale * dot * dot

\* cosine similarity of the two rating vectors over the songs both rated,
\* 0 if there is none.  The float is held in units of 1 / SimScale, rounded
\* down (ratings are positive, so the cosine of a shared song is positive).
_calculate_rating_similarity(ratings1, ratings2) ==
  LET common_songs == Keys(ratings1) \cap Keys(ratings2) IN
  IF common_songs = {} THEN 0
  ELSE LET dot == Dot(ratings1, ratings2, common_songs)
           n1  == Dot(ratings1, ratings1, common_songs)
           n2  == Dot(ratings2, ratings2, common_songs)
       IN CHOOSE c \in 0..SimScale :
            /\ c * c * n1 * n2 <= SimScale * SimScale * dot * dot
            /\ c < SimScale => (c + 1) * (c + 1) * n1 * n2 > SimScale * SimScale * dot * dot

\* [(other_id, similarity)] for every other onboarded agent, most similar
\* first; [] for an agent that is not onboarded
_find_similar_agents(oh, ih, agent_id) ==
  IF agent_id \notin Keys(oh) THEN <<>>
  ELSE LET others == SelectSeq(oh, LAMBDA item : item.key # agent_id)
           similarities ==
             [i \in DOMAIN others |->
                [other_id |-> others[i].key,
                 score |-> Rat(_calculate_rating_similarity(
                                 _get_agent_ratings(oh, ih, agent_id),
                                 _get_agent_ratings(oh, ih, others[i].key)), 1)]]
       IN SortDesc(similarities)

RECURSIVE AccumulateRatings_AlsoRated(_, _, _, _)
\* a variant of AccumulateRatings that also scores the songs the target rated
AccumulateRatings_AlsoRated(recommendations, similar_ratings, similarity, agent_ratings) ==
  IF similar_ratings = <<>> THEN recommendations
  ELSE LET song_id == Head(similar_ratings).key
           rating == Head(similar_ratings).value
       IN AccumulateRatings_AlsoRated(
            Put(recommendations, song_id,
                (IF song_id \in Keys(recommendations)
                 THEN Get(recommendations, song_id) ELSE 0)
                + rating * similarity),
            Tail(similar_ratings), similarity, agent_ratings)

RECURSIVE AccumulateRatings(_, _, _, _)
\* the inner loop: recommendations[song_id] += rating * similarity for the
\* songs of similar_ratings the target has not rated
AccumulateRatings(recommendations, similar_ratings, similarity, agent_ratings) ==
  IF similar_ratings = <<>> THEN recommendations
  ELSE LET song_id == Head(similar_ratings).key
           rating == Head(similar_ratings).value
       IN AccumulateRatings(
            IF song_id \notin Keys(agent_ratings)
            THEN Put(recommendations, song_id,
                     (IF song_id \in Keys(recommendations)
                      THEN Get(recommendations, song_id) ELSE 0)
                     + rating * similarity)
            ELSE recommendations,
            Tail(similar_ratings), similarity, agent_ratings)

RECURSIVE AccumulateAgents(_, _, _, _, _)
\* the outer loop, over the similar agents
AccumulateAgents(recommendations, similar_agents, oh, ih, agent_ratings) ==
  IF similar_agents = <<>> THEN recommendations
  ELSE AccumulateAgents(
         AccumulateRatings(recommendations,
                           _get_agent_ratings(oh, ih, Head(similar_agents).other_id),
                           Head(similar_agents).score.num, agent_ratings),
         Tail(similar_agents), oh, ih, agent_ratings)

\* the dict recommendations (song_id -> accumulated score, in units of
\* 1 / SimScale) as it stands before the sort; empty on the early returns
CollaborativeScores(oh, ih, agent_id) ==
  IF Cardinality(DOMAIN ih) < 2 THEN <<>>
  ELSE IF _get_agent_ratings(oh, ih, agent_id) = <<>> THEN <<>>
  ELSE AccumulateAgents(<<>>, _find_similar_agents(oh, ih, agent_id), oh, ih,
                        _get_agent_ratings(oh, ih, agent_id))

RECURSIVE LookupSongs(_)
\* song = get_song_by_id(song_id); if song: append
LookupSongs(items) ==
  IF items = <<>> THEN <<>>
  ELSE get_song_by_id(Head(items).key) \o LookupSongs(Tail(items))

_get_collaborative_recommendations(oh, ih, agent_id, n) ==
  LET recommendations == CollaborativeScores(oh, ih, agent_id)
      sorted_recs ==
        SortDesc([i \in DOMAIN recommendations |->
                    [key |-> recommendations[i].key,
                     score |-> Rat(recommendations[i].value, 1)]])
  IN LookupSongs(SubSeq(sorted_recs, 1, Min(n, Len(sorted_recs))))

----------------------------------------------------------------------------
(* RecommenderManager: the content-based list *)

\* a variant of _is_recently_recommended that ignores the cutoff
_is_recently_recommended_AnyTime(ih, agent_id, song_id, t) ==
  IF agent_id \notin DOMAIN ih THEN FALSE
  ELSE \E i \in DOMAIN ih[agent_id] : ih[agent_id][i].song_id = song_id

\* whether the ledger holds an interaction of the agent with the song whose
\* timestamp is later than t - 24h; t is datetime.now()
_is_recently_recommended(ih, agent_id, song_id, t) ==
  IF agent_id \notin DOMAIN ih THEN FALSE
  ELSE \E i \in DOMAIN ih[agent_id] :
         /\ ih[agent_id][i].timestamp > t - RecentHours
         /\ ih[agent_id][i].song_id = song_id

\* abs(1 - abs(song[feature] - pref_value)), in tenths
FeatureTerm(value, pref_value) ==
  Rat(Abs(Unit * pref_value.den - Abs(value * pref_value.den - pref_value.num)),
      pref_value.den)

RECURSIVE SumTerms(_, _, _)
SumTerms(row, feature_preferences, features) ==
  IF features = {} THEN Rat(0, 1)
  ELSE LET feature == CHOOSE feature \in features : TRUE
       IN RatAdd(FeatureTerm(row[feature], feature_preferences[feature]),
                 SumTerms(row, feature_preferences, features \ {feature}))

\* feature_similarity + genre_bonus of a catalog row, in tenths
ContentScore(history, row) ==
  LET total == SumTerms(row, history.feature_preferences,
                        DOMAIN history.feature_preferences)
      feature_similarity ==
        Rat(total.num, total.den * Cardinality(DOMAIN history.feature_preferences))
      genre_bonus ==
        IF row.playlist_genre \in DOMAIN history.genre_preferences
        THEN Rat(Unit * history.genre_preferences[row.playlist_genre].num,
                 5 * history.genre_preferences[row.playlist_genre].den)
        ELSE Rat(0, 1)
  IN RatAdd(feature_similarity, genre_bonus)

IndexOrders(n) ==
  {p \in [1..n -> 1..n] : \A i, j \in 1..n : i # j => p[i] # p[j]}

\* np.argsort(feature_scores): every ascending order of the row indices;
\* the order of rows of equal score is not specified
ArgsortOrders(feature_scores) ==
  {p \in IndexOrders(Len(feature_scores)) :
     \A i, j \in DOMAIN p :
       i < j => ~RatLess(feature_scores[p[j]], feature_scores[p[i]])}

Reverse(seq) == [i \in DOMAIN seq |-> seq[Len(seq) + 1 - i]]

\* data.sample(n): n distinct rows, in any order
get_random_songs(n) ==
  {FormatAll([i \in 1..n |-> data[p[i]]]) : p \in IndexOrders(Len(data))}

\* every list _get_content_based_recommendations can return at time t, n >= 1
_get_content_based_recommendations(oh, ih, agent_id, n, t) ==
  IF agent_id \notin Keys(oh) THEN get_random_songs(n)
  ELSE LET history == Get(oh, agent_id)
           feature_scores == [i \in DOMAIN data |-> ContentScore(history, data[i])]
       IN { LET top_indices ==
                  Reverse(SubSeq(order, Max(1, Len(order) - n * 2 + 1), Len(order)))
                recommended_songs ==
                  SelectSeq(FormatAll([i \in DOMAIN top_indices |-> data[top_indices[i]]]),
                            LAMBDA song_data :
                              ~_is_recently_recommended(ih, agent_id, song_data.id, t))
            IN SubSeq(recommended_songs, 1, Min(n, Len(recommended_songs)))
            : order \in ArgsortOrders(feature_scores) }

----------------------------------------------------------------------------
(* RecommenderManager: fusion *)

RECURSIVE ContentLoop_Ascending(_, _, _)
\* a variant of ContentLoop whose score grows with the position
ContentLoop_Ascending(all_recs, content_recs, i) ==
  IF i >= Len(content_recs) THEN all_recs
  ELSE ContentLoop_Ascending(
         Put(all_recs, content_recs[i + 1].id,
             [song |-> content_recs[i + 1],
              score |-> Rat(content_weight * (i + 1), Len(content_recs))]),
         content_recs, i + 1)

RECURSIVE ContentLoop(_, _, _)
\* all_recs[rec['id']] = {'song': rec, 'score': 0.7 * (1 - i/len(content_recs))}
ContentLoop(all_recs, content_recs, i) ==
  IF i >= Len(content_recs) THEN all_recs
  ELSE ContentLoop(
         Put(all_recs, content_recs[i + 1].id,
             [song |-> content_recs[i + 1],
              score |-> Rat(content_weight * (Len(content_recs) - i),
                            Len(content_recs))]),
         content_recs, i + 1)

RECURSIVE CollabLoop_Overwrite(_, _, _)
\* a variant of CollabLoop that replaces the score of a song already entered
CollabLoop_Overwrite(all_recs, collab_recs, i) ==
  IF i >= Len(collab_recs) THEN all_recs
  ELSE LET rec == collab_recs[i + 1]
           score == Rat(collab_weight * (Len(collab_recs) - i), Len(collab_recs))
       IN CollabLoop_Overwrite(
            Put(all_recs, rec.id,
                [song |-> IF rec.id \in Keys(all_recs)
                          THEN Get(all_recs, rec.id).song ELSE rec,
                 score |-> score]),
            collab_recs, i + 1)

RECURSIVE CollabLoop(_, _, _)
\* score = 0.3 * (1 - i/len(collab_recs)), added to the song's entry or
\* entered as a new one
CollabLoop(all_recs, collab_recs, i) ==
  IF i >= Len(collab_recs) THEN all_recs
  ELSE LET rec == collab_recs[i + 1]
           score == Rat(collab_weight * (Len(collab_recs) - i), Len(collab_recs))
       IN CollabLoop(
            IF rec.id \in Keys(all_recs)
            THEN Put(all_recs, rec.id,
                     [song |-> Get(all_recs, rec.id).song,
                      score |-> RatAdd(Get(all_recs, rec.id).score, score)])
            ELSE Put(all_recs, rec.id, [song |-> rec, score |-> score]),
            collab_recs, i + 1)

\* the dict all_recs (song id -> song and combined score, in tenths) as it
\* stands before the sort
CombinedScores(content_recs, collab_recs) ==
  CollabLoop(ContentLoop(<<>>, content_recs, 0), collab_recs, 0)

_combine_recommendations(content_recs, collab_recs) ==
  LET all_recs == CombinedScores(content_recs, collab_recs)
      sorted_recs == SortDesc([i \in DOMAIN all_recs |-> all_recs[i].value])
  IN [i \in DOMAIN sorted_recs |-> sorted_recs[i].song]

\* every outcome of get_recommendations(agent, n) at time t: the two lists,
\* the fused scores and the returned list
get_recommendations(oh, ih, agent_id, n, t) ==
  { LET collab_recs == _get_collaborative_recommendations(oh, ih, agent_id, n)
        combined_recs == _combine_recommendations(content_recs, collab_recs)
    IN [content_recs |-> content_recs, collab_recs |-> collab_recs,
        all_recs |-> CombinedScores(content_recs, collab_recs),
        result |-> SubSeq(combined_recs, 1, Min(n, Len(combined_recs)))]
    : content_recs \in _get_content_based_recommendations(oh, ih, agent_id, n, t) }

----------------------------------------------------------------------------
(* The recommendation phase: agents are onboarded, interactions are        *)
(* recorded in the ledger, time passes, recommendations are requested.     *)

\* agents = create_test_agents(): two of the agents of the run, in order
RecommenderAgents ==
  << create_pop_agent("pop_enthusiast"),
     create_genre_focused_agent("jazz_electronic_mix", "jazz",
                                <<"electronic", "ambient">>) >>

AgentIds == {RecommenderAgents[i].agent_id : i \in DOMAIN RecommenderAgents}

\* the interactions recorded in the ledger: (agent_id, song_id, rating)
Interactions ==
  { <<"pop_enthusiast", "t3", 5>>, <<"jazz_electronic_mix", "t3", None>> }

\* the numbers of recommendations asked for
RequestSizes == {1, 2}

LedgerSize(ih) ==
  LET RECURSIVE Total(_)
      Total(S) == IF S = {} THEN 0
                  ELSE LET x == CHOOSE x \in S : TRUE
                       IN Len(ih[x]) + Total(S \ {x})
  IN Total(DOMAIN ih)

Init ==
  /\ agent = <<>>
  /\ playlists = <<>>
  /\ call = [op |-> "init"]
  /\ onboarding_histories = <<>>
  /\ interaction_histories = <<>>
  /\ now = 0

\* history = onboarder.onboard_agent(agent);
\* onboarding_histories[agent.agent_id] = history
onboard_agent(a) ==
  /\ Len(onboarding_histories) < Len(RecommenderAgents)
  /\ a = RecommenderAgents[Len(onboarding_histories) + 1]
  /\ \E history \in OnboardingOutcomes(a) :
       onboarding_histories' = Put(onboarding_histories, a.agent_id, history)
  /\ call' = [op |-> "onboard_agent"]
  /\ UNCHANGED <<agent, playlists, interaction_histories, now>>

add_interaction(agent_id, song_id, rating, timestamp) ==
  /\ LedgerSize(interaction_histories) < MaxInteractions
  /\ LET interaction ==
           [song_id |-> song_id, rating |-> rating, timestamp |-> timestamp]
     IN interaction_histories' =
          [id \in DOMAIN interaction_histories \cup {agent_id} |->
             IF id = agent_id
             THEN (IF agent_id \in DOMAIN interaction_histories
                   THEN interaction_histories[agent_id] ELSE <<>>)
                  \o <<interaction>>
             ELSE interaction_histories[id]]
  /\ call' = [op |-> "add_interaction"]
  /\ UNCHANGED <<agent, playlists, onboarding_histories, now>>

\* the clock advances
Tick ==
  /\ now < MaxTicks * TickHours
  /\ now' = now + TickHours
  /\ UNCHANGED <<agent, playlists, call, onboarding_histories, interaction_histories>>

GetRecommendations(a, n) ==
  /\ \E outcome \in get_recommendations(onboarding_histories, interaction_histories,
                                         a.agent_id, n, now) :
       call' = [op |-> "get_recommendations", agent_id |-> a.agent_id,
                n |-> n, time |-> now,
                content_recs |-> outcome.content_recs,
                collab_recs |-> outcome.collab_recs,
                result |-> outcome.result]
  /\ UNCHANGED <<agent, playlists, managers>>

Next ==
  \/ \E i \in DOMAIN RecommenderAgents : onboard_agent(RecommenderAgents[i])
  \/ \E interaction \in Interactions :
       add_interaction(interaction[1], interaction[2], interaction[3], now)
  \/ Tick
  \/ \E i \in DOMAIN RecommenderAgents, n \in RequestSizes :
       GetRecommendations(RecommenderAgents[i], n)

Spec == Init /\ [][Next]_vars

----------------------------------------------------------------------------
(* Fusion on its own: _combine_recommendations applied to every pair of    *)
(* lists of at most MaxRecs catalog songs.  A list get_recommendations     *)
(* hands over names no song twice: the content list is made of distinct    *)
(* rows, the collaborative list of the keys of a dict.                     *)

RecLists ==
  {recs \in SeqsUpTo(AllSongs, MaxRecs) :
     \A i, j \in DOMAIN recs : i # j => recs[i].id # recs[j].id}

InitFusion ==
  /\ agent = <<>>
  /\ playlists = <<>>
  /\ \E content_recs \in RecLists, collab_recs \in RecLists :
       call = [op |-> "lists", content_recs |-> content_recs,
               collab_recs |-> collab_recs]
  /\ onboarding_histories = <<>>
  /\ interaction_histories = <<>>
  /\ now = 0

Combine ==
  /\ call.op = "lists"
  /\ call' = [op |-> "_combine_recommendations",
              content_recs |-> call.content_recs,
              collab_recs |-> call.collab_recs,
              all_recs |-> CombinedScores(call.content_recs, call.collab_recs),
              result |-> _combine_recommendations(call.content_recs, call.collab_recs)]
  /\ UNCHANGED <<agent, playlists, managers>>

NextFusion == Combine

SpecFusion == InitFusion /\ [][NextFusion]_vars

----------------------------------------------------------------------------
(* Properties of the collaborative filter and of the recency window        *)
(* (checked under Spec)                                                    *)

Ids(recs) == {recs[i].id : i \in DOMAIN recs}

Requested == call.op = "get_recommendations"

RatedSongs(agent_id) ==
  Keys(_get_agent_ratings(onboarding_histories, interaction_histories, agent_id))

Disjoint(x, y) == RatedSongs(x) \cap RatedSongs(y) = {}

\* the songs some other agent rated, and that only agents sharing no rated
\* song with x rated
RatedOnlyByStrangers(x) ==
  {song \in UNION {RatedSongs(y) : y \in AgentIds \ {x}} :
     \A y \in AgentIds \ {x} : song \in RatedSongs(y) => Disjoint(x, y)}

\* C7: two agents whose rated-song sets are disjoint have similarity 0, and
\* a song that only such neighbours rated is neither among the target's
\* collaborative candidates nor in the list
\* _get_collaborative_recommendations returns.
C7_StrangersContributeNothing ==
  \A x \in AgentIds :
    /\ \A y \in AgentIds \ {x} :
         Disjoint(x, y) =>
           _calculate_rating_similarity(
             _get_agent_ratings(onboarding_histories, interaction_histories, x),
             _get_agent_ratings(onboarding_histories, interaction_histories, y)) = 0
    /\ RatedOnlyByStrangers(x)
         \cap Keys(CollaborativeScores(onboarding_histories, interaction_histories, x))
         = {}
    /\ (Requested /\ call.agent_id = x) =>
         RatedOnlyByStrangers(x) \cap Ids(call.collab_recs) = {}

\* C8: a song get_recommendations returned to the onboarded agent X at time
\* T is in none of the content-based lists X can get at a time T' with
\* T' - T < 24h.
C8_RecommendedThenExcluded ==
  (/\ Requested
   /\ call.agent_id \in Keys(onboarding_histories)
   /\ now - call.time < RecentHours) =>
    \A n \in RequestSizes :
      \A content_recs \in _get_content_based_recommendations(
                             onboarding_histories, interaction_histories,
                             call.agent_id, n, now) :
        Ids(call.result) \cap Ids(content_recs) = {}

\* whether the agent has a rating, in its onboarding history or in the ledger
HasRating(agent_id) ==
  \/ /\ agent_id \in Keys(onboarding_histories)
     /\ \E i \in DOMAIN Get(onboarding_histories, agent_id).ratings :
          Get(onboarding_histories, agent_id).ratings[i].rating # None
  \/ /\ agent_id \in DOMAIN interaction_histories
     /\ \E i \in DOMAIN interaction_histories[agent_id] :
          interaction_histories[agent_id][i].rating # None

AgentsWithRatings == {agent_id \in AgentIds : HasRating(agent_id)}

\* C10: while fewer than 2 agents have a rating, in onboarding or in the
\* ledger, _get_collaborative_recommendations returns the empty list for
\* every agent and every n.
C10_ColdStartEmpty ==
  Cardinality(AgentsWithRatings) < 2 =>
    /\ \A x \in AgentIds, n \in RequestSizes :
         _get_collaborative_recommendations(
           onboarding_histories, interaction_histories, x, n) = <<>>
    /\ Requested => call.collab_recs = <<>>

\* the filter was asked, past both of its early returns, for the only agent
\* that has ratings, and returned the empty list
C10_Witness ==
  /\ Requested
  /\ AgentsWithRatings = {call.agent_id}
  /\ Cardinality(DOMAIN interaction_histories) >= 2
  /\ Cardinality(Keys(onboarding_histories)) >= 2
  /\ call.collab_recs = <<>>

\* the songs the accumulation loop scores for the agent when it is run
\* whatever the size of the ledger
LoopCandidates(x) ==
  Keys(AccumulateAgents(
         <<>>,
         _find_similar_agents(onboarding_histories, interaction_histories, x),
         onboarding_histories, interaction_histories,
         _get_agent_ratings(onboarding_histories, interaction_histories, x)))

\* C11: the cold-start requirement counts the agents with a non-empty merged
\* rating map: while at least 2 agents have one, the filter does not
\* short-circuit for an agent that has ratings, and its candidates are the
\* songs the accumulation loop scores, also when every rating comes from
\* onboarding and the ledger is empty.
C11_RatingHistoriesPassColdStart ==
  Cardinality(AgentsWithRatings) >= 2 =>
    \A x \in AgentsWithRatings :
      /\ Keys(CollaborativeScores(onboarding_histories, interaction_histories, x))
           = LoopCandidates(x)
      /\ (Requested /\ call.agent_id = x /\ LoopCandidates(x) # {})
           => call.collab_recs # <<>>

----------------------------------------------------------------------------
(* Properties of the fusion (checked under SpecFusion) *)

\* the 0-indexed position of the song in the list
Position(recs, id) == (CHOOSE i \in DOMAIN recs : recs[i].id = id) - 1

Combined == call.op = "_combine_recommendations"

\* 0.7 * (1 - i/L) + 0.3 * (1 - j/M) with the terms of the lists the song is
\* in, compared with the score by cross-multiplication
ScoreAsClaimed(id, score) ==
  LET L == Len(call.content_recs)
      M == Len(call.collab_recs)
      i == Position(call.content_recs, id)
      j == Position(call.collab_recs, id)
  IN IF id \in Ids(call.content_recs) /\ id \in Ids(call.collab_recs)
     THEN score.num * (L * M) =
            score.den * (content_weight * (L - i) * M + collab_weight * (M - j) * L)
     ELSE IF id \in Ids(call.content_recs)
     THEN score.num * L = score.den * (content_weight * (L - i))
     ELSE score.num * M = score.den * (collab_weight * (M - j))

\* C9: the combined score of a song is 0.7 * (1 - i/L) for its position i in
\* the content list of length L plus 0.3 * (1 - j/M) for its position j in
\* the collaborative list of length M, a song of one list only has that
\* list's term, and the fused output holds the songs of the two lists and
\* no other.
C9_PositionalScores ==
  Combined =>
    /\ Keys(call.all_recs) = Ids(call.content_recs) \cup Ids(call.collab_recs)
    /\ Ids(call.result) = Ids(call.content_recs) \cup Ids(call.collab_recs)
    /\ \A k \in DOMAIN call.all_recs :
         ScoreAsClaimed(call.all_recs[k].key, call.all_recs[k].value.score)

\* a fusion where one song is in both lists, off the head of the content
\* list, another in the content list only and a third in the other only
C9_Witness ==
  /\ Combined
  /\ \E id \in Ids(call.content_recs) \cap Ids(call.collab_recs) :
       Position(call.content_recs, id) > 0
  /\ Ids(call.content_recs) \ Ids(call.collab_recs) # {}
  /\ Ids(call.collab_recs) \ Ids(call.content_recs) # {}

----------------------------------------------------------------------------
(* The similarity on its own: _calculate_rating_similarity applied to      *)
(* every pair of rating maps of at most MaxRated songs.                    *)

SimilaritySongs == {"t1", "t2", "t3"}

\* ratings generate_rating gives and add_interaction records
SimilarityRatings == {1, 4, 5}

\* the dicts song_id -> rating _get_agent_ratings builds
RatingMaps ==
  {[i \in DOMAIN keys |-> [key |-> keys[i], value |-> values[i]]] :
     <<keys, values>> \in
       UNION {{kv \in [1..len -> SimilaritySongs] \X [1..len -> SimilarityRatings] :
                 \A i, j \in 1..len : i # j => kv[1][i] # kv[1][j]}
              : len \in 0..MaxRated}}

InitSimilarity ==
  /\ agent = <<>>
  /\ playlists = <<>>
  /\ \E ratings1 \in RatingMaps, ratings2 \in RatingMaps :
       call = [op |-> "maps", ratings1 |-> ratings1, ratings2 |-> ratings2]
  /\ onboarding_histories = <<>>
  /\ interaction_histories = <<>>
  /\ now = 0

\* the similarity is taken both ways round
Similarity ==
  /\ call.op = "maps"
  /\ call' = [op |-> "_calculate_rating_similarity",
              ratings1 |-> call.ratings1, ratings2 |-> call.ratings2,
              result |-> _calculate_rating_similarity(call.ratings1, call.ratings2),
              reversed |-> _calculate_rating_similarity(call.ratings2, call.ratings1)]
  /\ UNCHANGED <<agent, playlists, managers>>

NextSimilarity == Similarity

SpecSimilarity == InitSimilarity /\ [][NextSimilarity]_vars

(* Properties of the similarity (checked under SpecSimilarity) *)

Compared == call.op = "_calculate_rating_similarity"

\* C12: similarity(a, b) = similarity(b, a) for every pair of rating maps,
\* and the similarity is 0 when the maps share no song.
C12_SimilaritySymmetric ==
  Compared =>
    /\ call.result = call.reversed
    /\ Keys(call.ratings1) \cap Keys(call.ratings2) = {} => call.result = 0

\* two maps of different sizes that share a song, of similarity 1.0, and a
\* song only the first has
C12_Witness ==
  /\ Compared
  /\ Keys(call.ratings1) \cap Keys(call.ratings2) # {}
  /\ Keys(call.ratings1) \ Keys(call.ratings2) # {}
  /\ Keys(call.ratings2) \subseteq Keys(call.ratings1)
  /\ call.result = SimScale

----------------------------------------------------------------------------
(* The collaborative filter on its own: _get_collaborative_recommendations *)
(* applied in the states of the managers where each of three agents is     *)
(* onboarded or not and the ledger holds at most MaxLedger interactions.   *)

\* three of the agents of create_test_agents(), in order
CollabAgents ==
  << create_pop_agent("pop_enthusiast"),
     create_genre_focused_agent("rock_indie_mix", "rock", <<"indie", "pop">>),
     create_genre_focused_agent("jazz_electronic_mix", "jazz",
                                <<"electronic", "ambient">>) >>

CollabAgentIds == {CollabAgents[i].agent_id : i \in DOMAIN CollabAgents}

\* the interactions recorded in the ledger: (agent_id, song_id, rating)
CollabInteractions ==
  { <<"pop_enthusiast", "t4", 5>>, <<"pop_enthusiast", "t3", None>>,
    <<"rock_indie_mix", "t3", 5>>, <<"jazz_electronic_mix", "t3", 4>> }

RECURSIVE HistoriesOf(_)
\* the dicts onboarding_histories can be once each agent of the list was
\* onboarded or left out
HistoriesOf(agents) ==
  IF agents = <<>> THEN {<<>>}
  ELSE LET rest == HistoriesOf(Tail(agents))
       IN rest \cup
          {<<[key |-> Head(agents).agent_id, value |-> history]>> \o oh :
             history \in OnboardingOutcomes(Head(agents)), oh \in rest}

RECURSIVE LedgerAfter(_, _)
\* the ledger after add_interaction was called with each interaction in turn
LedgerAfter(ih, interactions) ==
  IF interactions = <<>> THEN ih
  ELSE LET agent_id == Head(interactions)[1]
           interaction == [song_id |-> Head(interactions)[2],
                           rating |-> Head(interactions)[3], timestamp |-> 0]
       IN LedgerAfter(
            [id \in DOMAIN ih \cup {agent_id} |->
               IF id = agent_id
               THEN (IF agent_id \in DOMAIN ih THEN ih[agent_id] ELSE <<>>)
                    \o <<interaction>>
               ELSE ih[id]],
            Tail(interactions))

InitCollab ==
  /\ agent = <<>>
  /\ playlists = <<>>
  /\ call = [op |-> "init"]
  /\ onboarding_histories \in HistoriesOf(CollabAgents)
  /\ interaction_histories \in
       {LedgerAfter(<<>>, interactions) :
          interactions \in SeqsUpTo(CollabInteractions, MaxLedger)}
  /\ now = 0

Collaborate(a, n) ==
  /\ call' = [op |-> "_get_collaborative_recommendations",
              agent_id |-> a.agent_id, n |-> n,
              recommendations |->
                CollaborativeScores(onboarding_histories, interaction_histories,
                                    a.agent_id),
              result |->
                _get_collaborative_recommendations(
                  onboarding_histories, interaction_histories, a.agent_id, n)]
  /\ UNCHANGED <<agent, playlists, managers>>

NextCollab ==
  \E i \in DOMAIN CollabAgents, n \in RequestSizes : Collaborate(CollabAgents[i], n)

SpecCollab == InitCollab /\ [][NextCollab]_vars

(* Properties of the collaborative filter (checked under SpecCollab) *)

Collaborated == call.op = "_get_collaborative_recommendations"

MergedRatings(x) ==
  _get_agent_ratings(onboarding_histories, interaction_histories, x)

\* the filter is past its two cold-start returns
PastColdStart ==
  /\ Collaborated
  /\ Cardinality(DOMAIN interaction_histories) >= 2
  /\ MergedRatings(call.agent_id) # <<>>

\* the songs some other agent rated and the target did not
UnseenSongs(x) ==
  UNION {Keys(MergedRatings(y)) : y \in CollabAgentIds \ {x}}
    \ Keys(MergedRatings(x))

RECURSIVE SumOverAgents(_, _, _)
\* the sum of rating * similarity over the agents of others that rated song
SumOverAgents(x, song, others) ==
  IF others = {} THEN 0
  ELSE LET y == CHOOSE y \in others : TRUE
       IN (IF song \in Keys(MergedRatings(y))
           THEN Get(MergedRatings(y), song)
                * _calculate_rating_similarity(MergedRatings(x), MergedRatings(y))
           ELSE 0)
          + SumOverAgents(x, song, others \ {y})

ClaimedCollabScore(x, song) == SumOverAgents(x, song, CollabAgentIds \ {x})

\* the scores and the returned list of the last call are those of the claim
CollabAsClaimed ==
  LET x == call.agent_id IN
  /\ Keys(call.recommendations) = UnseenSongs(x)
  /\ \A song \in UnseenSongs(x) :
       Get(call.recommendations, song) = ClaimedCollabScore(x, song)
  /\ Len(call.result) = Min(call.n, Cardinality(UnseenSongs(x)))
  /\ \A i, j \in DOMAIN call.result :
       i < j => ClaimedCollabScore(x, call.result[i].id)
                  >= ClaimedCollabScore(x, call.result[j].id)
  /\ \A song \in UnseenSongs(x) \ Ids(call.result) :
       \A i \in DOMAIN call.result :
         ClaimedCollabScore(x, song) <= ClaimedCollabScore(x, call.result[i].id)

\* C13: past the cold start, the score of each song the target has not
\* rated is the sum of rating * similarity over every other agent that rated
\* it, and the filter returns the n songs of highest score, highest first.
C13_AllNeighboursSummed == PastColdStart => CollabAsClaimed

\* the same where the target and every agent of the ledger are onboarded
C13_OnboardedNeighboursSummed ==
  (/\ PastColdStart
   /\ call.agent_id \in Keys(onboarding_histories)
   /\ DOMAIN interaction_histories \subseteq Keys(onboarding_histories))
    => CollabAsClaimed

\* the songs an agent has a rating for, read off the two stores
SongsWithRating(x) ==
  (IF x \in Keys(onboarding_histories)
   THEN {Get(onboarding_histories, x).ratings[i].song_id :
           i \in {j \in DOMAIN Get(onboarding_histories, x).ratings :
                    Get(onboarding_histories, x).ratings[j].rating # None}}
   ELSE {})
  \cup
  (IF x \in DOMAIN interaction_histories
   THEN {interaction_histories[x][i].song_id :
           i \in {j \in DOMAIN interaction_histories[x] :
                    interaction_histories[x][j].rating # None}}
   ELSE {})

\* C14: _get_collaborative_recommendations never returns a song the target
\* agent has a rating for, whether the rating came from onboarding or from
\* the ledger.
C14_NoRatedSongReturned ==
  Collaborated => Ids(call.result) \cap SongsWithRating(call.agent_id) = {}

\* a non-empty answer for a target that rated, in the ledger, a song one of
\* its neighbours rated too
C14_Witness ==
  /\ Collaborated
  /\ call.result # <<>>
  /\ call.agent_id \in DOMAIN interaction_histories
  /\ \E i \in DOMAIN interaction_histories[call.agent_id] :
       /\ interaction_histories[call.agent_id][i].rating # None
       /\ \E y \in Keys(onboarding_histories) \ {call.agent_id} :
            interaction_histories[call.agent_id][i].song_id
              \in Keys(MergedRatings(y))

----------------------------------------------------------------------------
(* The content scorer on its own: _get_content_based_recommendations for   *)
(* an agent that is onboarded (with any outcome of its ratings) or not,    *)
(* over every ledger of at most MaxRecent interactions.                    *)

ContentAgent == create_pop_agent("pop_enthusiast")

\* the request is made RecentHours after the clock started
ContentTime == RecentHours

\* (agent_id, song_id, timestamp): on the cutoff (0) or inside the window (1)
ContentInteractions ==
  ({"pop_enthusiast"} \X {"t1", "t2", "t3", "t4"} \X {0, 1})
    \cup {<<"rock_indie_mix", "t2", 1>>}

RECURSIVE LedgerAt(_, _)
\* the ledger after add_interaction(agent_id, song_id, None, timestamp) was
\* called with each interaction in turn
LedgerAt(ih, interactions) ==
  IF interactions = <<>> THEN ih
  ELSE LET agent_id == Head(interactions)[1]
           interaction == [song_id |-> Head(interactions)[2],
                           rating |-> None,
                           timestamp |-> Head(interactions)[3]]
       IN LedgerAt(
            [id \in DOMAIN ih \cup {agent_id} |->
               IF id = agent_id
               THEN (IF agent_id \in DOMAIN ih THEN ih[agent_id] ELSE <<>>)
                    \o <<interaction>>
               ELSE ih[id]],
            Tail(interactions))

\* feature_scores as it stands after the loop over the catalog
FeatureScores(oh, agent_id) ==
  IF agent_id \notin Keys(oh) THEN <<>>
  ELSE [i \in DOMAIN data |-> ContentScore(Get(oh, agent_id), data[i])]

InitContent ==
  /\ agent = <<>>
  /\ playlists = <<>>
  /\ call = [op |-> "init"]
  /\ onboarding_histories \in HistoriesOf(<<ContentAgent>>)
  /\ interaction_histories \in
       {LedgerAt(<<>>, interactions) :
          interactions \in SeqsUpTo(ContentInteractions, MaxRecent)}
  /\ now = ContentTime

ContentRecommend(a, n) ==
  /\ \E recommended_songs \in
         _get_content_based_recommendations(onboarding_histories,
                                            interaction_histories,
                                            a.agent_id, n, now) :
       call' = [op |-> "_get_content_based_recommendations",
                agent_id |-> a.agent_id, n |-> n,
                feature_scores |-> FeatureScores(onboarding_histories, a.agent_id),
                result |-> recommended_songs]
  /\ UNCHANGED <<agent, playlists, managers>>

NextContent == \E n \in RequestSizes : ContentRecommend(ContentAgent, n)

SpecContent == InitContent /\ [][NextContent]_vars

(* Properties of the content scorer (checked under SpecContent) *)

ContentScored ==
  /\ call.op = "_get_content_based_recommendations"
  /\ call.agent_id \in Keys(onboarding_histories)

\* 1 - |song_feature - profile_feature|, in tenths
ClaimedTerm(value, pref_value) ==
  Rat(Unit * pref_value.den - Abs(value * pref_value.den - pref_value.num),
      pref_value.den)

RECURSIVE ClaimedSum(_, _, _)
ClaimedSum(row, feature_preferences, features) ==
  IF features = {} THEN Rat(0, 1)
  ELSE LET feature == CHOOSE feature \in features : TRUE
       IN RatAdd(ClaimedTerm(row[feature], feature_preferences[feature]),
                 ClaimedSum(row, feature_preferences, features \ {feature}))

\* mean over the features of the profile, plus genre_preference / 5
ClaimedContentScore(history, row) ==
  LET total == ClaimedSum(row, history.feature_preferences,
                          DOMAIN history.feature_preferences)
      mean == Rat(total.num,
                  total.den * Cardinality(DOMAIN history.feature_preferences))
      bonus == IF row.playlist_genre \in DOMAIN history.genre_preferences
               THEN Rat(Unit * history.genre_preferences[row.playlist_genre].num,
                        5 * history.genre_preferences[row.playlist_genre].den)
               ELSE Rat(0, 1)
  IN RatAdd(mean, bonus)

\* C15: the content score of every catalog song for an onboarded agent is
\* the mean over the profile's features of 1 - |song_feature -
\* profile_feature| plus the genre bonus, also where a feature (tempo)
\* differs from the profile by more than 1.
C15_ScoreIsOneMinusDistance ==
  ContentScored =>
    \A i \in DOMAIN data :
      RatEq(call.feature_scores[i],
            ClaimedContentScore(Get(onboarding_histories, call.agent_id), data[i]))

ContentRequested == call.op = "_get_content_based_recommendations"

\* the agent has an interaction with the song inside the trailing window
RecentlyInteracted(agent_id, song_id) ==
  /\ agent_id \in DOMAIN interaction_histories
  /\ \E i \in DOMAIN interaction_histories[agent_id] :
       /\ interaction_histories[agent_id][i].song_id = song_id
       /\ interaction_histories[agent_id][i].timestamp > now - RecentHours
       /\ interaction_histories[agent_id][i].timestamp <= now

\* the score the scorer gave the catalog song of this id
ScoreOfId(song_id) ==
  call.feature_scores[CHOOSE i \in DOMAIN data : data[i].track_id = song_id]

\* T holds the k highest-scoring rows of the catalog
IsTopRows(T, k) ==
  /\ Cardinality(T) = Min(k, Len(data))
  /\ \A i \in T, j \in DOMAIN data \ T :
       ~RatLess(call.feature_scores[i], call.feature_scores[j])

\* the result is the first n, highest first, of the rows of T that have no
\* recent interaction
IsFirstSurvivors(T) ==
  LET survivors == {data[i].track_id :
                      i \in {j \in T :
                               ~RecentlyInteracted(call.agent_id, data[j].track_id)}}
  IN /\ Len(call.result) = Min(call.n, Cardinality(survivors))
     /\ Ids(call.result) \subseteq survivors
     /\ \A i, j \in DOMAIN call.result :
          i < j => /\ call.result[i].id # call.result[j].id
                   /\ ~RatLess(ScoreOfId(call.result[i].id),
                               ScoreOfId(call.result[j].id))
     /\ \A song_id \in survivors \ Ids(call.result) :
          \A i \in DOMAIN call.result :
            ~RatLess(ScoreOfId(call.result[i].id), ScoreOfId(song_id))

\* n distinct songs of the catalog
IsSample ==
  /\ Len(call.result) = call.n
  /\ \A i \in DOMAIN call.result :
       \E j \in DOMAIN data : call.result[i] = _format_song_dict(data[j])
  /\ \A i, j \in DOMAIN call.result :
       i # j => call.result[i].id # call.result[j].id

\* C16: for an onboarded agent the content list is, highest score first,
\* the first n of the 2n highest-scoring catalog songs that have no ledger
\* interaction by the agent within the trailing 24 hours: at most n songs,
\* none of them recently interacted with.  For an agent without a profile
\* it is n catalog songs.
C16_FirstOfTopWithoutRecent ==
  ContentRequested =>
    IF call.agent_id \in Keys(onboarding_histories)
    THEN /\ Len(call.result) <= call.n
         /\ \A i \in DOMAIN call.result :
              ~RecentlyInteracted(call.agent_id, call.result[i].id)
         /\ \E T \in SUBSET DOMAIN data :
              IsTopRows(T, 2 * call.n) /\ IsFirstSurvivors(T)
    ELSE IsSample

\* an onboarded agent, a song that outscores the head of the list dropped
\* for a recent interaction, and an interaction on the cutoff with a song
\* that is returned
C16_Witness ==
  /\ ContentScored
  /\ call.result # <<>>
  /\ call.agent_id \in DOMAIN interaction_histories
  /\ \E j \in DOMAIN data :
       /\ RecentlyInteracted(call.agent_id, data[j].track_id)
       /\ RatLess(ScoreOfId(call.result[1].id), call.feature_scores[j])
  /\ \E i \in DOMAIN interaction_histories[call.agent_id] :
       /\ interaction_histories[call.agent_id][i].timestamp = now - RecentHours
       /\ interaction_histories[call.agent_id][i].song_id \in Ids(call.result)

----------------------------------------------------------------------------
(* The last step of get_recommendations on its own: the two lists are      *)
(* fused and the first n of the ranking returned.  Each list holds at most *)
(* n songs, as the two scorers return them.  Songs of equal combined score *)
(* need a content list of 7: 0.7 * (1 - 4/7) is 0.3, the score of the head *)
(* of a collaborative list, and 0.6 + 0.3 is 0.7 + 0.2.                    *)

TieIds == <<"s1", "s2", "s3", "s4", "s5", "s6", "s7", "s8">>

TieSongs ==
  [i \in DOMAIN TieIds |->
     _format_song_dict(Row(TieIds[i], "pop", 50, 2020, 5, 5, 5, 5, 1000))]

TieContent == SubSeq(TieSongs, 1, 7)

TieCollabs ==
  { <<TieSongs[8]>>,
    <<TieSongs[2], TieSongs[1], TieSongs[8]>>,
    <<>> }

TieSizes == {7, 8}

RankingInputs ==
  {x \in RecLists \X RecLists \X RequestSizes :
     Len(x[1]) <= x[3] /\ Len(x[2]) <= x[3]}
  \cup ({TieContent} \X TieCollabs \X TieSizes)

InitRanking ==
  /\ agent = <<>>
  /\ playlists = <<>>
  /\ \E x \in RankingInputs :
       call = [op |-> "lists", content_recs |-> x[1], collab_recs |-> x[2],
               n |-> x[3]]
  /\ onboarding_histories = <<>>
  /\ interaction_histories = <<>>
  /\ now = 0

\* combined_recs = self._combine_recommendations(content_recs, collab_recs, agent)
\* return combined_recs[:n_recommendations]
Return ==
  /\ call.op = "lists"
  /\ LET combined_recs ==
           _combine_recommendations(call.content_recs, call.collab_recs)
     IN call' = [op |-> "get_recommendations",
                 content_recs |-> call.content_recs,
                 collab_recs |-> call.collab_recs,
                 n |-> call.n,
                 result |-> SubSeq(combined_recs, 1,
                                   Min(call.n, Len(combined_recs)))]
  /\ UNCHANGED <<agent, playlists, managers>>

NextRanking == Return

SpecRanking == InitRanking /\ [][NextRanking]_vars

(* Properties of the returned ranking (checked under SpecRanking) *)

Candidates == Ids(call.content_recs) \cup Ids(call.collab_recs)

\* 0.7 * (1 - i/L) + 0.3 * (1 - j/M), with the terms of the lists the song
\* is in
ClaimedCombined(id) ==
  LET L == Len(call.content_recs)
      M == Len(call.collab_recs)
      content == IF id \in Ids(call.content_recs)
                 THEN Rat(content_weight * (L - Position(call.content_recs, id)), L)
                 ELSE Rat(0, 1)
      collab == IF id \in Ids(call.collab_recs)
                THEN Rat(collab_weight * (M - Position(call.collab_recs, id)), M)
                ELSE Rat(0, 1)
  IN RatAdd(content, collab)

\* the place of a song in the original order: the content list, then the
\* songs of the collaborative list only
OriginalRank(id) ==
  IF id \in Ids(call.content_recs) THEN Position(call.content_recs, id)
  ELSE Len(call.content_recs) + Position(call.collab_recs, id)

\* a ranks ahead of b: a higher score, or an equal one and an earlier place
RanksAhead(a, b) ==
  \/ RatLess(ClaimedCombined(b), ClaimedCombined(a))
  \/ /\ RatEq(ClaimedCombined(a), ClaimedCombined(b))
     /\ OriginalRank(a) < OriginalRank(b)

\* the dictionary of a candidate, as the list it was first seen in has it
SongOf(id) ==
  IF id \in Ids(call.content_recs)
  THEN call.content_recs[Position(call.content_recs, id) + 1]
  ELSE call.collab_recs[Position(call.collab_recs, id) + 1]

\* C17: get_recommendations returns the first n of the fused candidates in
\* descending order of combined score, songs of equal score in their
\* original order (content-list songs before collaborative-only songs).
C17_StableDescendingTopN ==
  Requested =>
    /\ Len(call.result) = Min(call.n, Cardinality(Candidates))
    /\ \A i \in DOMAIN call.result :
         /\ call.result[i].id \in Candidates
         /\ call.result[i] = SongOf(call.result[i].id)
    /\ \A i, j \in DOMAIN call.result :
         i < j => RanksAhead(call.result[i].id, call.result[j].id)
    /\ \A id \in Candidates \ Ids(call.result) :
         \A i \in DOMAIN call.result : RanksAhead(call.result[i].id, id)

\* two songs of equal combined score are returned, one after the other
C17_Witness ==
  /\ Requested
  /\ \E i, j \in DOMAIN call.result :
       /\ i < j
       /\ RatEq(ClaimedCombined(call.result[i].id),
                ClaimedCombined(call.result[j].id))
       /\ call.result[j].id \notin Ids(call.content_recs)

\* C18: when the collaborative list is empty, get_recommendations returns
\* the content-based list in its original order, truncated to n.
C18_ColdStartContentOnly ==
  (Requested /\ call.collab_recs = <<>>) =>
    call.result =
      SubSeq(call.content_recs, 1, Min(call.n, Len(call.content_recs)))

\* an empty collaborative list and a content list of several songs
C18_Witness ==
  /\ Requested
  /\ call.collab_recs = <<>>
  /\ Len(call.content_recs) >= 2
  /\ call.result # <<>>

----------------------------------------------------------------------------
(* _create_onboarding_history on its own, applied to every list of at most *)
(* MaxOnboarded ratings: songs of two genres and an id the catalog does    *)
(* not have, each unrated, rated under the liking threshold or on it.      *)

OnboardingSongIds == {"t1", "t2", "t3", "t9"}

OnboardingRatings == {None, 3, 4}

RatingLists ==
  SeqsUpTo([agent_id : {ContentAgent.agent_id}, song_id : OnboardingSongIds,
            rating : OnboardingRatings, type : {"onboarding"}],
           MaxOnboarded)

InitOnboarding ==
  /\ agent = <<>>
  /\ playlists = <<>>
  /\ \E ratings \in RatingLists : call = [op |-> "ratings", ratings |-> ratings]
  /\ onboarding_histories = <<>>
  /\ interaction_histories = <<>>
  /\ now = 0

CreateHistory ==
  /\ call.op = "ratings"
  /\ call' = [op |-> "_create_onboarding_history",
              ratings |-> call.ratings,
              history |-> _create_onboarding_history(ContentAgent, call.ratings)]
  /\ UNCHANGED <<agent, playlists, managers>>

NextOnboarding == CreateHistory

SpecOnboarding == InitOnboarding /\ [][NextOnboarding]_vars

(* Properties of the onboarding history (checked under SpecOnboarding) *)

HistoryCreated == call.op = "_create_onboarding_history"

\* the entries whose song the catalog has
FoundEntries ==
  {i \in DOMAIN call.ratings :
     \E j \in DOMAIN data : data[j].track_id = call.ratings[i].song_id}

RowOfEntry(i) ==
  data[CHOOSE j \in DOMAIN data : data[j].track_id = call.ratings[i].song_id]

\* the entries of a genre that carry a rating
RatedEntries(genre) ==
  {i \in FoundEntries :
     /\ RowOfEntry(i).playlist_genre = genre
     /\ call.ratings[i].rating # None}

\* the entries rated 4 or higher
LikedEntries ==
  {i \in FoundEntries :
     call.ratings[i].rating # None /\ call.ratings[i].rating >= 4}

RECURSIVE SumOver(_, _)
\* the sum of f[i] over the i of S
SumOver(S, f) ==
  IF S = {} THEN 0
  ELSE LET i == CHOOSE i \in S : TRUE IN f[i] + SumOver(S \ {i}, f)

\* value is the mean of f over S
IsMeanOver(value, S, f) == value.num * Cardinality(S) = value.den * SumOver(S, f)

\* C19: the genre map of the profile holds exactly the genres of the
\* onboarding songs that got a non-absent rating, each with the mean of
\* those ratings; each of the five features is the mean of the feature
\* over the songs rated 4 or higher, or 0.5 when there is none; a song the
\* catalog lookup does not find contributes nothing.
C19_ProfileAggregates ==
  HistoryCreated =>
    LET history == call.history IN
    /\ DOMAIN history.genre_preferences =
         {data[j].playlist_genre : j \in DOMAIN data}
           \cap {genre \in {RowOfEntry(i).playlist_genre : i \in FoundEntries} :
                   RatedEntries(genre) # {}}
    /\ \A genre \in DOMAIN history.genre_preferences :
         IsMeanOver(history.genre_preferences[genre], RatedEntries(genre),
                    [i \in RatedEntries(genre) |-> call.ratings[i].rating])
    /\ DOMAIN history.feature_preferences =
         {"danceability", "energy", "acousticness", "valence", "tempo"}
    /\ \A feature \in DOMAIN history.feature_preferences :
         IF LikedEntries = {}
         THEN history.feature_preferences[feature].num * 2
                = history.feature_preferences[feature].den * Unit
         ELSE IsMeanOver(history.feature_preferences[feature], LikedEntries,
                         [i \in LikedEntries |-> RowOfEntry(i)[feature]])

\* a song the catalog does not have rated 4, a song rated 4 and a song of
\* another genre rated under 4
C19_Witness ==
  /\ HistoryCreated
  /\ \E i \in DOMAIN call.ratings \ FoundEntries : call.ratings[i].rating = 4
  /\ \E i, k \in FoundEntries :
       /\ call.ratings[i].rating = 4
       /\ call.ratings[k].rating = 3
       /\ RowOfEntry(i).playlist_genre # RowOfEntry(k).playlist_genre

----------------------------------------------------------------------------
(* Preference lists (checked under SpecPref) *)

NoDuplicateFeature(a) ==
  \A i, j \in DOMAIN a.feature_preferences :
     a.feature_preferences[i].feature_name = a.feature_preferences[j].feature_name
       => i = j

\* C20: an agent that construction accepts, built directly or by
\* create_genre_focused_agent, has no two genre preferences of one genre
\* and no two feature preferences of one feature name.
C20_NoDuplicateKeys == NoDuplicateGenre(agent) /\ NoDuplicateFeature(agent)

----------------------------------------------------------------------------
(* Construction: the pydantic models validate their fields when an object  *)
(* is made.  One agent is constructed from raw arguments, in range or not, *)
(* and, if construction accepts it, it is scored against songs.            *)

\* a variant of Field_ge_le that checks the lower limit only
Field_ge_le_NoUpper(value, ge, le) == value >= ge

\* Field(ge=..., le=...): the value passes validation
Field_ge_le(value, ge, le) == value >= ge /\ value <= le

\* GenrePreference(genre=..., weight=...) is accepted
GenrePreferenceAccepted(arg) == Field_ge_le(arg.weight, 0, Unit)

\* AudioFeaturePreference(feature_name=..., preferred_range=..., weight=...)
\* is accepted
AudioFeaturePreferenceAccepted(arg) == Field_ge_le(arg.weight, 0, Unit)

\* ListeningBehavior(...) is accepted
ListeningBehaviorAccepted(arg) ==
  /\ Field_ge_le(arg.avg_session_length, 10, 180)
  /\ Field_ge_le(arg.skip_probability, 0, Unit)
  /\ Field_ge_le(arg.rating_probability, 0, Unit)
  /\ Field_ge_le(arg.playlist_creation_frequency, 0, Unit)

\* weights and probabilities in tenths: under 0, the two limits, over 1
RawWeights == {0 - 1, 0, Unit, Unit + 1}

RawGenrePreferences == [genre : {"pop"}, weight : RawWeights]

RawFeaturePreferences ==
  [feature_name : {"energy"}, lo : {3}, hi : {8}, weight : RawWeights]

\* one field at a time off its limits, the others in range
RawBehaviors ==
  [avg_session_length : {9, 10, 180, 181}, skip_probability : {3},
   rating_probability : {5}, playlist_creation_frequency : {5}]
  \cup [avg_session_length : {30}, skip_probability : RawWeights,
        rating_probability : {5}, playlist_creation_frequency : {5}]
  \cup [avg_session_length : {30}, skip_probability : {3},
        rating_probability : RawWeights, playlist_creation_frequency : {5}]
  \cup [avg_session_length : {30}, skip_probability : {3},
        rating_probability : {5}, playlist_creation_frequency : RawWeights]

InitConstruct ==
  /\ agent = <<>>
  /\ playlists = <<>>
  /\ call = [op |-> "init"]
  /\ onboarding_histories = <<>>
  /\ interaction_histories = <<>>
  /\ now = 0

\* MusicAgent(agent_id=..., genre_preferences=[GenrePreference(...), ...],
\*            feature_preferences=[AudioFeaturePreference(...), ...],
\*            behavior=ListeningBehavior(...)): the agent, or a
\* ValidationError raised by the first constructor that rejects its fields
Construct(gps, fps, beh) ==
  /\ call.op = "init"
  /\ LET accepted ==
           /\ \A i \in DOMAIN gps : GenrePreferenceAccepted(gps[i])
           /\ \A i \in DOMAIN fps : AudioFeaturePreferenceAccepted(fps[i])
           /\ ListeningBehaviorAccepted(beh)
     IN /\ agent' =
             IF accepted
             THEN MusicAgent("built_agent", <<"built">>,
                    [i \in DOMAIN gps |->
                       GenrePreference(gps[i].genre, gps[i].weight)],
                    [i \in DOMAIN fps |->
                       AudioFeaturePreference(fps[i].feature_name, fps[i].lo,
                                              fps[i].hi, fps[i].weight)],
                    ListeningBehavior(beh.avg_session_length,
                                      beh.skip_probability,
                                      beh.rating_probability,
                                      beh.playlist_creation_frequency))
             ELSE agent
        /\ call' = [op |-> "MusicAgent", genre_preferences |-> gps,
                    feature_preferences |-> fps, behavior |-> beh,
                    result |-> IF accepted THEN "agent" ELSE "ValidationError"]
  /\ UNCHANGED <<playlists, managers>>

NextConstruct ==
  \/ \E gps \in SeqsUpTo(RawGenrePreferences, MaxBuilt),
        fps \in SeqsUpTo(RawFeaturePreferences, MaxBuilt),
        beh \in RawBehaviors : Construct(gps, fps, beh)
  \/ \E song \in AllSongs : agent # <<>> /\ Listen(song)
  \/ \E song \in AllSongs, draw \in RandomDraws : agent # <<>> /\ Rate(song, draw)

SpecConstruct == InitConstruct /\ [][NextConstruct]_vars

(* Properties of construction (checked under SpecConstruct) *)

InUnitInterval(x) == 0 <= x /\ x <= Unit

\* every weight and probability of the arguments is in [0, 1] and the
\* session length is at least 10 (and at most 180)
ArgumentsInRange ==
  /\ \A i \in DOMAIN call.genre_preferences :
       InUnitInterval(call.genre_preferences[i].weight)
  /\ \A i \in DOMAIN call.feature_preferences :
       InUnitInterval(call.feature_preferences[i].weight)
  /\ InUnitInterval(call.behavior.skip_probability)
  /\ InUnitInterval(call.behavior.rating_probability)
  /\ InUnitInterval(call.behavior.playlist_creation_frequency)
  /\ call.behavior.avg_session_length >= 10
  /\ call.behavior.avg_session_length <= 180

AgentInRange ==
  /\ \A i \in DOMAIN agent.genre_preferences :
       InUnitInterval(agent.genre_preferences[i].weight)
  /\ \A i \in DOMAIN agent.feature_preferences :
       InUnitInterval(agent.feature_preferences[i].weight)
  /\ InUnitInterval(agent.behavior.skip_probability)
  /\ InUnitInterval(agent.behavior.rating_probability)
  /\ InUnitInterval(agent.behavior.playlist_creation_frequency)
  /\ agent.behavior.avg_session_length >= 10

\* C21: a genre preference, feature preference or listening behaviour with
\* a weight or probability outside [0, 1], or a session length under 10,
\* is rejected with a validation error when it is constructed, so that no
\* agent is scored with an out-of-range weight or probability.
C21_OutOfRangeRejected ==
  /\ call.op = "MusicAgent" =>
       /\ ~ArgumentsInRange => (call.result = "ValidationError" /\ agent = <<>>)
       /\ ArgumentsInRange => (call.result = "agent" /\ agent # <<>>)
  /\ call.op \in {"should_listen_to_song", "generate_rating"} => AgentInRange

\* a construction rejected for one genre weight just over 1, the rest of
\* the arguments in range
C21_Witness ==
  /\ call.op = "MusicAgent"
  /\ call.result = "ValidationError"
  /\ Len(call.genre_preferences) = 1
  /\ call.genre_preferences[1].weight = Unit + 1
  /\ \A i \in DOMAIN call.feature_preferences :
       InUnitInterval(call.feature_preferences[i].weight)
  /\ ListeningBehaviorAccepted(call.behavior)

----------------------------------------------------------------------------
(* Recency of the returned songs (checked under Spec) *)

\* the agent of the last request has a ledger interaction with the song
\* within the 24 hours before the request
InteractedBeforeRequest(song_id) ==
  /\ call.agent_id \in DOMAIN interaction_histories
  /\ \E i \in DOMAIN interaction_histories[call.agent_id] :
       /\ interaction_histories[call.agent_id][i].song_id = song_id
       /\ interaction_histories[call.agent_id][i].timestamp > call.time - RecentHours
       /\ interaction_histories[call.agent_id][i].timestamp <= call.time

\* C22: no song get_recommendations returns for an agent has a ledger
\* interaction by that agent within the trailing 24 hours of the request,
\* whether it came from the content-based list, the random fallback or
\* the collaborative list.
C22_NoRecentSongReturned ==
  Requested =>
    \A i \in DOMAIN call.result : ~InteractedBeforeRequest(call.result[i].id)

----------------------------------------------------------------------------
(* The ledger: agents are onboarded, interactions are added for agents     *)
(* onboarded or not, recommendations are requested.  The call record       *)
(* keeps the arguments of add_interaction.                                 *)

\* (agent_id, song_id, rating): t1 is an onboarding song of pop_enthusiast
LedgerInteractions ==
  { <<"pop_enthusiast", "t1", None>>, <<"pop_enthusiast", "t1", 3>>,
    <<"pop_enthusiast", "t1", 5>>, <<"pop_enthusiast", "t3", 5>>,
    <<"jazz_electronic_mix", "t3", 5>> }

\* a variant of Appended that puts the interaction at the head of the list
Appended_AtHead(ih, agent_id, interaction) ==
  [id \in DOMAIN ih \cup {agent_id} |->
     IF id = agent_id
     THEN <<interaction>>
          \o (IF agent_id \in DOMAIN ih THEN ih[agent_id] ELSE <<>>)
     ELSE ih[id]]

\* if agent_id not in self.interaction_histories: ... = []
\* self.interaction_histories[agent_id].append(interaction)
Appended(ih, agent_id, interaction) ==
  [id \in DOMAIN ih \cup {agent_id} |->
     IF id = agent_id
     THEN (IF agent_id \in DOMAIN ih THEN ih[agent_id] ELSE <<>>)
          \o <<interaction>>
     ELSE ih[id]]

InitLedger == Init

AddInteraction(agent_id, song_id, rating, timestamp) ==
  /\ LedgerSize(interaction_histories) < MaxAppends
  /\ interaction_histories' =
       Appended(interaction_histories, agent_id,
                [song_id |-> song_id, rating |-> rating, timestamp |-> timestamp])
  /\ call' = [op |-> "add_interaction", agent_id |-> agent_id,
              song_id |-> song_id, rating |-> rating, timestamp |-> timestamp]
  /\ UNCHANGED <<agent, playlists, onboarding_histories, now>>

NextLedger ==
  \/ \E i \in DOMAIN RecommenderAgents : onboard_agent(RecommenderAgents[i])
  \/ \E interaction \in LedgerInteractions :
       AddInteraction(interaction[1], interaction[2], interaction[3], now)
  \/ \E i \in DOMAIN RecommenderAgents :
       GetRecommendations(RecommenderAgents[i], 1)

SpecLedger == InitLedger /\ [][NextLedger]_vars

(* Properties of the ledger (checked under SpecLedger) *)

\* the list of an agent, empty while the agent has none
LedgerOf(ih, agent_id) == IF agent_id \in DOMAIN ih THEN ih[agent_id] ELSE <<>>

IsPrefix(s, t) == Len(s) <= Len(t) /\ SubSeq(t, 1, Len(s)) = s

\* C23: the ledger is append-only.  Every step leaves each agent's list a
\* prefix of its new list; add_interaction(a, ...) puts exactly one entry,
\* the one it was given, at the end of a's list and leaves every other
\* list as it was; a recommendation request leaves the ledger unchanged.
C23_LedgerAppendOnly ==
  [][ /\ \A x \in DOMAIN interaction_histories :
           /\ x \in DOMAIN interaction_histories'
           /\ IsPrefix(interaction_histories[x], interaction_histories'[x])
      /\ call'.op = "add_interaction" =>
           /\ LedgerOf(interaction_histories', call'.agent_id) =
                LedgerOf(interaction_histories, call'.agent_id)
                  \o <<[song_id |-> call'.song_id, rating |-> call'.rating,
                        timestamp |-> call'.timestamp]>>
           /\ \A x \in DOMAIN interaction_histories' \ {call'.agent_id} :
                /\ x \in DOMAIN interaction_histories
                /\ interaction_histories'[x] = interaction_histories[x]
      /\ call'.op = "get_recommendations" =>
           interaction_histories' = interaction_histories
    ]_vars

\* an interaction was added behind an earlier one of the same agent,
\* another agent having a list too
C23_Witness ==
  /\ call.op = "add_interaction"
  /\ Len(interaction_histories[call.agent_id]) >= 2
  /\ interaction_histories[call.agent_id][1].rating # call.rating
  /\ DOMAIN interaction_histories # {call.agent_id}

\* every agent with interaction history has a profile
HistoryOnlyAfterOnboarding ==
  \A x \in DOMAIN interaction_histories : x \in Keys(onboarding_histories)

\* no step takes a profile or an interaction history away from an agent
StatusKept ==
  /\ Keys(onboarding_histories) \subseteq Keys(onboarding_histories')
  /\ DOMAIN interaction_histories \subseteq DOMAIN interaction_histories'

\* C24: the lifecycle of an agent is linear: it gains interaction history
\* only after it was onboarded, and once it is onboarded or has
\* interaction history it never loses that status.
C24_LinearLifecycle == [](HistoryOnlyAfterOnboarding) /\ [][StatusKept]_vars

\* the second half on its own: no backward transition
C24_StatusNeverLost == [][StatusKept]_vars

----------------------------------------------------------------------------
(* Interleaving: one writer per agent calls add_interaction, a reader      *)
(* computes similarities for a third agent, and the statements of the      *)
(* calls are interleaved one by one.  The statements of add_interaction    *)
(* are the membership test, the creation of the list and the append; each  *)
(* is one operation on a dict or a list and is not torn.                   *)

Writers == {1, 2}

\* the agent a writer adds interactions for
WriterAgent(w) == IF w = 1 THEN "pop_enthusiast" ELSE "jazz_electronic_mix"

ReaderAgent == "rock_indie_mix"

\* (song_id, rating) of the MaxWrites interactions a writer adds, in turn a
\* rated one and an unrated one
WriterScript(w) ==
  [k \in 1..MaxWrites |->
     IF (k + w) % 2 = 0 THEN <<"t3", 5>> ELSE <<"t4", None>>]

\* a variant of Created that rebinds the ledger to a dict of the new list
Created_Alone(ih, agent_id) == [id \in {agent_id} |-> <<>>]

\* self.interaction_histories[agent_id] = []
Created(ih, agent_id) ==
  [id \in DOMAIN ih \cup {agent_id} |-> IF id = agent_id THEN <<>> ELSE ih[id]]

\* self.interaction_histories[agent_id].append(interaction)
AppendedTo(ih, agent_id, interaction) ==
  [ih EXCEPT ![agent_id] = @ \o <<interaction>>]

InitInterleave ==
  /\ agent = <<>>
  /\ playlists = <<>>
  /\ call = [op |-> "interleave",
             scripts |-> [w \in Writers |-> WriterScript(w)],
             writers |-> [w \in Writers |->
                            [pc |-> "test", i |-> 1, missing |-> FALSE]],
             reads |-> 0,
             seen |-> <<>>]
  /\ onboarding_histories \in
       {oh \in HistoriesOf(CollabAgents) : Len(oh) = Len(CollabAgents)}
  /\ interaction_histories = <<>>
  /\ now = 0

\* if agent_id not in self.interaction_histories:
Test(w) ==
  /\ call.writers[w].pc = "test"
  /\ LET missing == WriterAgent(w) \notin DOMAIN interaction_histories
     IN call' = [call EXCEPT !.writers[w].missing = missing,
                             !.writers[w].pc =
                                IF missing THEN "create" ELSE "append"]
  /\ UNCHANGED <<agent, playlists, managers>>

Create(w) ==
  /\ call.writers[w].pc = "create"
  /\ interaction_histories' = Created(interaction_histories, WriterAgent(w))
  /\ call' = [call EXCEPT !.writers[w].pc = "append"]
  /\ UNCHANGED <<agent, playlists, onboarding_histories, now>>

AppendInteraction(w) ==
  /\ call.writers[w].pc = "append"
  /\ LET i == call.writers[w].i
         interaction ==
           [song_id |-> call.scripts[w][i][1], rating |-> call.scripts[w][i][2],
            timestamp |-> now]
     IN /\ interaction_histories' =
             AppendedTo(interaction_histories, WriterAgent(w), interaction)
        /\ call' = [call EXCEPT !.writers[w].i = i + 1,
                                !.writers[w].pc =
                                   IF i + 1 > Len(call.scripts[w])
                                   THEN "done" ELSE "test"]
  /\ UNCHANGED <<agent, playlists, onboarding_histories, now>>

\* the reader takes the rating map of an agent, as _find_similar_agents and
\* the loop of _get_collaborative_recommendations do for each neighbour
Read(other_id) ==
  /\ call.reads < MaxReads
  /\ call' = [call EXCEPT
                !.reads = @ + 1,
                !.seen = <<[other_id |-> other_id,
                            ratings |-> _get_agent_ratings(onboarding_histories,
                                                           interaction_histories,
                                                           other_id)]>>]
  /\ UNCHANGED <<agent, playlists, managers>>

NextInterleave ==
  \/ \E w \in Writers : Test(w)
  \/ \E w \in Writers : Create(w)
  \/ \E w \in Writers : AppendInteraction(w)
  \/ \E other_id \in Keys(onboarding_histories) \ {ReaderAgent} : Read(other_id)

SpecInterleave == InitInterleave /\ [][NextInterleave]_vars

(* Properties of the interleaved run (checked under SpecInterleave) *)

\* the interactions a writer has appended so far, in the order of its calls
WrittenSoFar(w) ==
  [k \in 1..(call.writers[w].i - 1) |->
     [song_id |-> call.scripts[w][k][1], rating |-> call.scripts[w][k][2],
      timestamp |-> now]]

\* the agents that have a writer
WrittenAgents == {"pop_enthusiast", "jazz_electronic_mix"}

WriterOf(x) == IF x = "pop_enthusiast" THEN 1 ELSE 2

\* C25: with one writer per agent and no lock across agents, however the
\* statements of the add_interaction calls and the reads are interleaved,
\* the slice of each agent holds exactly the interactions its writer has
\* appended, each once and in order: none is lost or duplicated and no
\* other writer or reader alters the slice.
C25_InterleavedAppendsKept ==
  /\ DOMAIN interaction_histories \subseteq WrittenAgents
  /\ \A x \in WrittenAgents :
       LedgerOf(interaction_histories, x) = WrittenSoFar(WriterOf(x))

\* the second writer has completed a call and the reader has read a rating
\* map while the first writer stands between its membership test and the
\* creation of its list
C25_Witness ==
  /\ call.op = "interleave"
  /\ call.writers[1].pc = "create"
  /\ call.writers[2].i > 1
  /\ Len(LedgerOf(interaction_histories, WriterAgent(2))) > 0
  /\ call.reads > 0

----------------------------------------------------------------------------
(* The merged rating map (checked under SpecLedger) *)

\* the entries of a list that rate the song
RatingEntries(list, song_id) ==
  {i \in DOMAIN list : list[i].song_id = song_id /\ list[i].rating # None}

LastOf(S) == CHOOSE i \in S : \A j \in S : j <= i

OnboardingRatingsOf(x) ==
  IF x \in Keys(onboarding_histories)
  THEN Get(onboarding_histories, x).ratings ELSE <<>>

\* the rating the claim gives the agent for the song: a sequence of length
\* 0 (none) or 1
ClaimedRating(x, song_id) ==
  LET ledger == LedgerOf(interaction_histories, x)
      onboarding == OnboardingRatingsOf(x)
  IN IF RatingEntries(ledger, song_id) # {}
     THEN <<ledger[LastOf(RatingEntries(ledger, song_id))].rating>>
     ELSE IF RatingEntries(onboarding, song_id) # {}
     THEN <<onboarding[LastOf(RatingEntries(onboarding, song_id))].rating>>
     ELSE <<>>

\* C26: the merged rating _get_agent_ratings reports for a song is the most
\* recently appended non-absent ledger rating of the song if there is one,
\* otherwise the last non-absent onboarding rating; an interaction with an
\* absent rating removes or changes no rating.
C26_LatestRatingWins ==
  \A x \in AgentIds :
    LET merged == MergedRatings(x) IN
    \A row \in Range(data) :
      IF ClaimedRating(x, row.track_id) = <<>>
      THEN row.track_id \notin Keys(merged)
      ELSE /\ row.track_id \in Keys(merged)
           /\ Get(merged, row.track_id) = ClaimedRating(x, row.track_id)[1]

\* an unrated interaction was just added for a song the agent rated in
\* onboarding and, differently, twice in the ledger
C26_Witness ==
  /\ call.op = "add_interaction"
  /\ call.rating = None
  /\ RatingEntries(OnboardingRatingsOf(call.agent_id), call.song_id) # {}
  /\ \E i, j \in RatingEntries(interaction_histories[call.agent_id], call.song_id) :
       /\ i < j
       /\ interaction_histories[call.agent_id][i].rating
            # interaction_histories[call.agent_id][j].rating
       /\ Get(MergedRatings(call.agent_id), call.song_id)
            = interaction_histories[call.agent_id][j].rating

====
